---- MODULE Spec2Model ----
(***************************************************************************)
(* Model of github.com/canonical/ssoauth: minting a credential with a      *)
(* third-party caveat addressed to the SSO provider (Macaroon), the        *)
(* provider's discharge (ssoauthtest.Discharger), and the verification of  *)
(* the discharged slice (Authenticate driving CaveatChecker).              *)
(*                                                                         *)
(* Time is counted in ticks; a timestamp caveat carries whole microseconds *)
(* (TicksPerMicro ticks each), so formatting a time truncates it.  Tick 0  *)
(* is Go's zero time.Time.                                                 *)
(***************************************************************************)
EXTENDS Integers, Sequences, FiniteSets, TLC

(* ---- bounds of the model ---- *)
MaxNow == 3        \* the clock runs from 1 to MaxNow
MaxExtra == 2      \* caveats the provider adds after Discharger.Discharge
MaxAuthCalls == 2  \* Authenticate calls that run at the same time

(* ---- program constants ---- *)
TicksPerMicro == 2 \* resolution of timeFormat: sub-microsecond digits are dropped
expireTime == 2    \* absolute lifetime of a minted credential (7 days, scaled to ticks)

Location == "login.example.com"
OtherLocation == "other.example.com"

ssoLoginOp == [Entity |-> "ssologin", Action |-> "login"]
testOp == [Entity |-> "test", Action |-> "test"]

ErrUnauthorized == "unauthorized"

(* ---- accounts and their JSON form ---- *)
JSONFields == {"openid", "username", "displayname", "email", "is_verified"}

ZeroIdentity ==
  [openid |-> "", username |-> "", displayname |-> "", email |-> "", is_verified |-> FALSE]

Account(provider, id, lastAuth) ==
  [Provider |-> provider, OpenID |-> id.openid, Username |-> id.username,
   DisplayName |-> id.displayname, Email |-> id.email,
   IsVerified |-> id.is_verified, LastAuth |-> lastAuth]

ZeroAccount == Account("", ZeroIdentity, 0)

\* the fields of an Account that encoding/json reads and writes
Identity(acc) ==
  [openid |-> acc.OpenID, username |-> acc.Username, displayname |-> acc.DisplayName,
   email |-> acc.Email, is_verified |-> acc.IsVerified]

NoJSON == [jk |-> "none", has |-> {}, v |-> ZeroIdentity]
JSONNull == [jk |-> "null", has |-> {}, v |-> ZeroIdentity]
JSONInvalid == [jk |-> "invalid", has |-> {}, v |-> ZeroIdentity]
JSONObject(has, id) == [jk |-> "object", has |-> has, v |-> id]

\* json.Marshal(acc): Provider and LastAuth are tagged json:"-"
Marshal(acc) == JSONObject(JSONFields, Identity(acc))

\* json.Unmarshal of an object into an existing Account: only the members
\* present in the document are assigned
UnmarshalObject(js, acc) ==
  [acc EXCEPT !.OpenID = IF "openid" \in js.has THEN js.v.openid ELSE @,
              !.Username = IF "username" \in js.has THEN js.v.username ELSE @,
              !.DisplayName = IF "displayname" \in js.has THEN js.v.displayname ELSE @,
              !.Email = IF "email" \in js.has THEN js.v.email ELSE @,
              !.IsVerified = IF "is_verified" \in js.has THEN js.v.is_verified ELSE @]

(* ---- timestamps ---- *)
\* t.Format(timeFormat): the text holds whole microseconds
Format(t) == t \div TicksPerMicro
\* time.Parse(timeFormat, text)
Parse(ts) == ts * TicksPerMicro
IsZero(t) == t = 0

(* ---- caveat payloads (part 3 of a condition) ---- *)
NoPayload == [k |-> "none", ts |-> 0, js |-> NoJSON]
Garbage == [k |-> "garbage", ts |-> 0, js |-> NoJSON]     \* "@@@@", "yesterday"
TsPayload(ts) == [k |-> "ts", ts |-> ts, js |-> NoJSON]   \* text in timeFormat
B64Payload(js) == [k |-> "b64", ts |-> 0, js |-> js]      \* base64 of a document

\* base64.StdEncoding.DecodeString succeeds
B64Valid(p) == p.k = "b64"
\* time.Parse(timeFormat, .) succeeds
TimeValid(p) == p.k = "ts"

(* ---- conditions ---- *)
\* A condition is the string p0|p1|p2 cut after n parts; a standard bakery
\* condition is the single part "p0 arg".
Cond(p0, n, p1, p2, arg) == [p0 |-> p0, n |-> n, p1 |-> p1, p2 |-> p2, arg |-> arg]
NoCond == Cond("", 0, "", NoPayload, 0)

SSOCaveat(name, p) == Cond(Location, 3, name, p, 0)
SSOCaveatNoPayload(name) == Cond(Location, 2, name, NoPayload, 0)

\* checkers.TimeBeforeCaveat(t)
TimeBeforeCaveat(t) == Cond("time-before", 1, "", NoPayload, t)

\* Discharger.accountCaveat
accountCaveat(acc) == SSOCaveat("account", B64Payload(Marshal(acc)))
\* Discharger.timeCaveat
timeCaveat(name, t) == SSOCaveat(name, TsPayload(Format(t)))

(* ---- errors ---- *)
\* cause: what errgo.Cause reports (ErrUnauthorized, or "masked" when the
\* error is its own cause); msg: the message; cav: the caveat the message
\* quotes, NoCond if none; under: the kind of the error it wraps
Err(cause, msg, cav, under) == [cause |-> cause, msg |-> msg, cav |-> cav, under |-> under]
NoErr == Err("nil", "", NoCond, "nil")

(* ---- the SSO caveat checker ---- *)
\* One application of the function CaveatChecker returns.  acc is the
\* Account the checker writes to, isNil tells whether the checker's own
\* pointer to it has been set to nil; out is "ok" (nil error), "err",
\* "unsupported" (ErrUnsupportedCaveat) or "panic" (nil pointer dereference).
CheckResult(out, msg, cav, acc, isNil) ==
  [out |-> out, msg |-> msg, cav |-> cav, acc |-> acc, isNil |-> isNil]

CheckFailed(msg, cav, acc, isNil) == CheckResult("err", msg, cav, acc, isNil)
CheckPassed(acc, isNil) == CheckResult("ok", "", NoCond, acc, isNil)
CheckPanic(acc, isNil) == CheckResult("panic", "", NoCond, acc, isNil)

\* json.Unmarshal(b, &acc) with acc of type *Account: an object is stored
\* into the Account acc points to, the literal null sets the pointer acc
\* itself to nil and leaves the Account alone
checkAccountPayload(caveatID, acc) ==
  IF ~B64Valid(caveatID.p2)
    THEN CheckFailed("cannot parse caveat", caveatID, acc, FALSE)
  ELSE IF caveatID.p2.js.jk = "null"
    THEN CheckPassed(acc, TRUE)
  ELSE IF caveatID.p2.js.jk = "object"
    THEN CheckPassed(UnmarshalObject(caveatID.p2.js, acc), FALSE)
  ELSE CheckFailed("cannot parse caveat", caveatID, acc, FALSE)

\* variant: the Provider is not recorded
checkAccount_NoProvider(caveatID, acc, isNil) ==
  IF isNil
    THEN CheckPanic(acc, isNil)
  ELSE IF acc.Provider # ""
    THEN CheckFailed("duplicate caveat", caveatID, acc, isNil)
  ELSE IF caveatID.n < 3
    THEN CheckFailed("malformed caveat", caveatID, acc, isNil)
  ELSE checkAccountPayload(caveatID, acc)

checkAccount(caveatID, acc, isNil) ==
  IF isNil
    THEN CheckPanic(acc, isNil)
  ELSE IF acc.Provider # ""
    THEN CheckFailed("duplicate caveat", caveatID, acc, isNil)
  ELSE IF caveatID.n < 3
    THEN CheckFailed("malformed caveat", caveatID, [acc EXCEPT !.Provider = caveatID.p0], isNil)
  ELSE checkAccountPayload(caveatID, [acc EXCEPT !.Provider = caveatID.p0])

\* variant: the comparison with the clock is not strict
checkExpires_NotStrict(caveatID, acc, isNil, t) ==
  IF caveatID.n < 3
    THEN CheckFailed("malformed caveat", caveatID, acc, isNil)
  ELSE IF ~TimeValid(caveatID.p2)
    THEN CheckFailed("cannot parse caveat", caveatID, acc, isNil)
  ELSE IF t > Parse(caveatID.p2.ts)
    THEN CheckFailed("macaroon expired", NoCond, acc, isNil)
  ELSE CheckPassed(acc, isNil)

checkExpires(caveatID, acc, isNil, t) ==
  IF caveatID.n < 3
    THEN CheckFailed("malformed caveat", caveatID, acc, isNil)
  ELSE IF ~TimeValid(caveatID.p2)
    THEN CheckFailed("cannot parse caveat", caveatID, acc, isNil)
  ELSE IF ~(t < Parse(caveatID.p2.ts))
    THEN CheckFailed("macaroon expired", NoCond, acc, isNil)
  ELSE CheckPassed(acc, isNil)

\* on a parse error time.Parse returns the zero time, which is assigned
checkLastAuth(caveatID, acc, isNil) ==
  IF isNil
    THEN CheckPanic(acc, isNil)
  ELSE IF ~IsZero(acc.LastAuth)
    THEN CheckFailed("duplicate caveat", caveatID, acc, isNil)
  ELSE IF caveatID.n < 3
    THEN CheckFailed("malformed caveat", caveatID, acc, isNil)
  ELSE IF ~TimeValid(caveatID.p2)
    THEN CheckFailed("cannot parse caveat", caveatID, [acc EXCEPT !.LastAuth = 0], isNil)
  ELSE CheckPassed([acc EXCEPT !.LastAuth = Parse(caveatID.p2.ts)], isNil)

\* variant: the comparison with the clock is not strict
checkValidSince_NotStrict(caveatID, acc, isNil, t) ==
  IF caveatID.n < 3
    THEN CheckFailed("malformed caveat", caveatID, acc, isNil)
  ELSE IF ~TimeValid(caveatID.p2)
    THEN CheckFailed("cannot parse caveat", caveatID, acc, isNil)
  ELSE IF t < Parse(caveatID.p2.ts)
    THEN CheckFailed("macaroon not yet valid", NoCond, acc, isNil)
  ELSE CheckPassed(acc, isNil)

checkValidSince(caveatID, acc, isNil, t) ==
  IF caveatID.n < 3
    THEN CheckFailed("malformed caveat", caveatID, acc, isNil)
  ELSE IF ~TimeValid(caveatID.p2)
    THEN CheckFailed("cannot parse caveat", caveatID, acc, isNil)
  ELSE IF ~(t > Parse(caveatID.p2.ts))
    THEN CheckFailed("macaroon not yet valid", NoCond, acc, isNil)
  ELSE CheckPassed(acc, isNil)

\* variant: a provider caveat with an unknown name is an error
CaveatChecker_RejectUnknown(caveatID, acc, isNil, t) ==
  IF caveatID.n < 2 \/ caveatID.p0 # Location
    THEN CheckResult("unsupported", "unsupported caveat", NoCond, acc, isNil)
  ELSE CASE caveatID.p1 = "account" -> checkAccount(caveatID, acc, isNil)
         [] caveatID.p1 = "expires" -> checkExpires(caveatID, acc, isNil, t)
         [] caveatID.p1 = "last_auth" -> checkLastAuth(caveatID, acc, isNil)
         [] caveatID.p1 = "valid_since" -> checkValidSince(caveatID, acc, isNil, t)
         [] OTHER -> CheckFailed("unexpected caveat", caveatID, acc, isNil)

\* the dispatch on parts[0] and parts[1]
CaveatChecker(caveatID, acc, isNil, t) ==
  IF caveatID.n < 2 \/ caveatID.p0 # Location
    THEN CheckResult("unsupported", "unsupported caveat", NoCond, acc, isNil)
  ELSE CASE caveatID.p1 = "account" -> checkAccount(caveatID, acc, isNil)
         [] caveatID.p1 = "expires" -> checkExpires(caveatID, acc, isNil, t)
         [] caveatID.p1 = "last_auth" -> checkLastAuth(caveatID, acc, isNil)
         [] caveatID.p1 = "valid_since" -> checkValidSince(caveatID, acc, isNil, t)
         [] OTHER -> CheckPassed(acc, isNil)

\* variant: the time of the caveat itself still passes
CheckFirstPartyCaveat_NotStrict(cond, t) ==
  IF cond.n = 1 /\ cond.p0 = "time-before"
    THEN IF t <= cond.arg THEN NoErr ELSE Err("masked", "caveat not satisfied", cond, "nil")
    ELSE Err("masked", "caveat not recognized", cond, "nil")

\* stdChecker.CheckFirstPartyCaveat of checkers.New(nil): time-before is
\* compared with the clock, a condition outside the standard namespace is
\* not recognized
CheckFirstPartyCaveat(cond, t) ==
  IF cond.n = 1 /\ cond.p0 = "time-before"
    THEN IF t < cond.arg THEN NoErr ELSE Err("masked", "caveat not satisfied", cond, "nil")
    ELSE Err("masked", "caveat not recognized", cond, "nil")

\* variant: a condition the SSO checker does not support is let through
checkCondition_SkipStandard(cond, acc, isNil, t) ==
  LET r == CaveatChecker(cond, acc, isNil, t) IN
  IF r.out = "unsupported" THEN CheckPassed(acc, isNil) ELSE r

\* The body of the loop of Authenticate for one condition
checkCondition(cond, acc, isNil, t) ==
  LET r == CaveatChecker(cond, acc, isNil, t) IN
  IF r.out = "unsupported"
    THEN LET e == CheckFirstPartyCaveat(cond, t) IN
         IF e = NoErr THEN CheckPassed(acc, isNil)
                      ELSE CheckFailed(e.msg, e.cav, acc, isNil)
    ELSE r

(* ---- the third-party caveat of a minted credential ---- *)
RootKeys == {"rk1"}
NoKey == "none"

\* rsa.EncryptOAEP under the provider's public key, then base64; and the
\* provider's base64 decoding and rsa.DecryptOAEP with its private key
EncryptOAEP(rootKey) == [sealed |-> rootKey]
DecryptOAEP(secret) == secret.sealed
EncodeToString(bytes) == [b64 |-> bytes]
DecodeString(str) == str.b64

\* the caveat identifier envelope {secret, version}
CaveatID(secret, version) == [secret |-> secret, version |-> version]
NoCaveatID == CaveatID(EncodeToString(EncryptOAEP(NoKey)), 0)

\* variant: the envelope seals another key than the caveat is verified with
AddThirdPartyCaveat_OtherKey(rootKey, location) ==
  [Location |-> location,
   Id |-> CaveatID(EncodeToString(EncryptOAEP(NoKey)), 1),
   VerificationId |-> rootKey]

\* AddThirdPartyCaveat(m, rootKey, location, pk)
AddThirdPartyCaveat(rootKey, location) ==
  [Location |-> location,
   Id |-> CaveatID(EncodeToString(EncryptOAEP(rootKey)), 1),
   VerificationId |-> rootKey]

\* a credential: the operations its identifier encodes, its first-party
\* caveats and its third-party caveat
Credential(ops, caveats, tp) == [ops |-> ops, caveats |-> caveats, tp |-> tp]
NoCred == Credential(<<>>, <<>>, [Location |-> "", Id |-> NoCaveatID, VerificationId |-> NoKey])

\* a discharge macaroon: the root key it is signed with, its first-party
\* caveats, and how many of them were added after Discharger.Discharge
DischargeMacaroon(key, caveats, extra) == [key |-> key, caveats |-> caveats, extra |-> extra]
NoDis == DischargeMacaroon(NoKey, <<>>, 0)

(* ---- inputs ---- *)
idA == [openid |-> "AAAAAAA", username |-> "test-user", displayname |-> "Test User",
        email |-> "test@example.com", is_verified |-> TRUE]
idB == [openid |-> "BBBBBBB", username |-> "", displayname |-> "", email |-> "",
        is_verified |-> FALSE]

\* the acc argument of Discharge: nil, or an account with a last-auth time
\* that is not a whole number of microseconds
DischargeAccounts ==
  { [nil |-> TRUE, acc |-> ZeroAccount],
    [nil |-> FALSE, acc |-> Account(Location, idA, 3)] }

\* the expires and validSince arguments of Discharge: both zero, or a window
DischargeWindows == { <<0, 0>>, <<5, 1>> }

\* the operations a credential of the same oven may carry
ForeignOps == { <<testOp>>, <<ssoLoginOp, testOp>> }

\* caveats a provider may put into the discharge after Discharger.Discharge
ExtraCaveats ==
  { SSOCaveat("account", B64Payload(JSONObject({"openid"}, idB))),
    SSOCaveat("account", B64Payload(JSONNull)),
    SSOCaveat("account", B64Payload(JSONInvalid)),
    SSOCaveat("account", Garbage),
    SSOCaveatNoPayload("account"),
    SSOCaveat("expires", TsPayload(1)),
    SSOCaveat("expires", Garbage),
    SSOCaveatNoPayload("expires"),
    SSOCaveat("valid_since", TsPayload(1)),
    SSOCaveat("valid_since", Garbage),
    SSOCaveatNoPayload("valid_since"),
    SSOCaveat("last_auth", TsPayload(0)),
    SSOCaveat("last_auth", TsPayload(1)),
    SSOCaveat("last_auth", Garbage),
    SSOCaveatNoPayload("last_auth"),
    SSOCaveat("unknown", Garbage),
    Cond(OtherLocation, 3, "account", B64Payload(JSONObject({"openid"}, idB)), 0) }

(***************************************************************************)
(* Package ssoauthacl: identities, matchers and the launchpad directory    *)
(***************************************************************************)

(* ---- bounds of the matcher models ---- *)
MaxCallers == 2    \* MatchIdentity calls made on one LaunchpadTeamMatcher
MaxIds == 3        \* length of the candidate list given to an ACLMatcher

(* ---- identity strings ---- *)
\* The text "https://{host}/{sep}{name}", sep being "+id/" or "~".  Two
\* strings are equal exactly when their records are.
URLString(host, sep, name) == [text |-> "https://", host |-> host, sep |-> sep, name |-> name]
EmptyString == [text |-> "", host |-> "", sep |-> "", name |-> ""]
\* a text url.Parse refuses (missing protocol scheme)
BadURL == [text |-> "::AAAAAAA", host |-> "", sep |-> "", name |-> ""]

\* url.Parse(id): an error, or the URL with its Host
urlParse(id) ==
  IF id = BadURL THEN [err |-> TRUE, Host |-> ""] ELSE [err |-> FALSE, Host |-> id.host]

\* fmt.Sprintf("https://%s/+id/%s", acc.Provider, acc.OpenID)
accid(acc) == URLString(acc.Provider, "+id/", acc.OpenID)

(* ---- errors of the matchers ---- *)
NoError == [kind |-> "nil", cause |-> "nil", of |-> ""]
\* errgo.New(text), as the tests' errorMatcher returns
NewError(text) == [kind |-> "error", cause |-> text, of |-> ""]
\* ctx.Err() of a done context: context.Canceled or context.DeadlineExceeded
ctxErr(done) == [kind |-> "ctx", cause |-> done, of |-> ""]
\* a failure of the launchpad API at the named step
lpadError(step) == [kind |-> "lpad", cause |-> "lpad", of |-> step]

\* errgo.Mask(err, errgo.Is(context.Canceled), errgo.Is(context.DeadlineExceeded)):
\* nil stays nil, a cancellation cause is kept, every other cause is hidden
\* behind the new error
Mask(err) ==
  CASE err = NoError -> NoError
    [] err.cause \in {"canceled", "deadline"} -> [err EXCEPT !.kind = "masked"]
    [] OTHER -> [kind |-> "masked", cause |-> "masked", of |-> ""]

(* ---- the launchpad directory ---- *)
test1 == URLString("launchpad.net", "~", "test1")
test2 == URLString("launchpad.net", "~", "test2")
test3 == URLString("launchpad.net", "~", "test3")

\* variant: every provider's accounts have a launchpad key
DefaultLaunchpadOpenID_AnyProvider(acc) ==
  URLString("login.launchpad.net", "+id/", acc.OpenID)

\* DefaultLaunchpadOpenID
DefaultLaunchpadOpenID(acc) ==
  CASE acc.Provider \in {"login.launchpad.net", "login.ubuntu.com"} ->
         URLString("login.launchpad.net", "+id/", acc.OpenID)
    [] acc.Provider \in {"login-lp.staging.ubuntu.com", "login.staging.ubuntu.com"} ->
         URLString("login-lp.staging.ubuntu.com", "+id/", acc.OpenID)
    [] OTHER -> EmptyString

KeyA == URLString("login.launchpad.net", "+id/", "AAAAAAA")
KeyB == URLString("login.launchpad.net", "+id/", "BBBBBBB")
Keys == {KeyA, KeyB}

\* What the directory holds: the person of KeyA has a super_teams collection
\* that declares three entries and lists two; nobody has the identifier KeyB.
Person(found, totalSize, entries) ==
  [found |-> found, total_size |-> totalSize, entries |-> entries]
Directory == (KeyA :> Person(TRUE, 3, <<test1, test2>>)) @@ (KeyB :> Person(FALSE, 0, <<>>))

\* the accounts MatchIdentity is called with; the last has no launchpad key
LpAccounts ==
  { Account("login.ubuntu.com", idA, 0), Account("login.ubuntu.com", idB, 0),
    Account(Location, idA, 0) }

\* the candidate list of the calls: a team of the person, a team the person
\* is not in, and the empty string
LpCandidates == { <<test1, test3, EmptyString>> }

Callers == 1..MaxCallers
NoCaller == 0

\* a Result of the singleflight group, and the empty channel
Result(val, err) == [full |-> TRUE, Val |-> val, Err |-> err]
NoResult == [full |-> FALSE, Val |-> <<>>, Err |-> NoError]

\* what MatchIdentity returned
Matched(rids, err) == [rids |-> rids, err |-> err]
NoMatched == Matched(<<>>, NoError)

\* a run of getLaunchpadTeams started by a caller: where it is, for which
\* key, the channels of the callers that wait for it, and what it returned
Lookup(stage, key, chans, out) == [stage |-> stage, key |-> key, chans |-> chans, out |-> out]
NoLookup == Lookup("none", EmptyString, {}, NoResult)

\* a MatchIdentity call: position, arguments, the subject key, the state of
\* its context, its channel, the lookup it waits for and its return value
Call(pc, acc, ids, oid, ctx, ch, joined, ret) ==
  [pc |-> pc, acc |-> acc, ids |-> ids, oid |-> oid, ctx |-> ctx, ch |-> ch,
   joined |-> joined, ret |-> ret]
NoCall == Call("idle", ZeroAccount, <<>>, EmptyString, "", NoResult, NoCaller, NoMatched)

NoEntry == [ok |-> FALSE, teams |-> <<>>]
Entry(teams) == [ok |-> TRUE, teams |-> teams]

(* ---- the ACL ---- *)
Hosts == {"1.example.com", "2.example.com", "3.example.com"}
\* the matchers an ACLMatcher is built from: none for the host, an
\* AccountMatcher, or the tests' errorMatcher
MatcherKinds == {"nil", "AccountMatcher", "errorMatcher"}
\* host 3.example.com never has a matcher
ACLMatchers ==
  { [h \in Hosts |-> IF h = "3.example.com" THEN "nil" ELSE g[h]] :
      g \in [{"1.example.com", "2.example.com"} -> MatcherKinds] }

ACLAccounts == { Account("1.example.com", idA, 0), Account("2.example.com", idA, 0) }

ACLCandidates ==
  { URLString("1.example.com", "+id/", "AAAAAAA"), URLString("1.example.com", "+id/", "BBBBBBB"),
    URLString("2.example.com", "+id/", "AAAAAAA"), URLString("3.example.com", "+id/", "AAAAAAA"),
    BadURL }

\* the hosts url.Parse can yield for a candidate
IdHosts == Hosts \cup {""}

(* ---- state ---- *)
VARIABLES
  now,      \* the clock that time.Now() reads
  cred,     \* the credential the client holds, NoCred before the first mint
  dis,      \* the discharge the client holds for cred, NoDis if none
  pc,       \* position of the Authenticate call: idle, checking, done, panic
  conds,    \* conditions VerifyMacaroon returned to the call
  i,        \* index in conds of the condition being checked; 0 before the loop
  account,  \* the Account under construction
  accNil,   \* the checker's pointer to account has been set to nil
  ret       \* what Authenticate returned: (Account pointer, error)

\* a LaunchpadTeamMatcher and the calls made on it
VARIABLES
  matcher,  \* its configuration: SingleflightGroup and Cache set or nil
  cache,    \* the Cache: subject key -> entry
  group,    \* the singleflight group: subject key -> the caller whose lookup is in flight
  lookup,   \* the run of getLaunchpadTeams each caller started
  call,     \* the MatchIdentity calls, numbered in order of arrival
  requests  \* requests the directory has received, per subject key and endpoint

\* an ACLMatcher (or an AccountMatcher) and the call made on it
VARIABLES
  aclPc,     \* position of the call: idle, ranging, done
  aclCall,   \* the matcher and the arguments of the call
  idmap,     \* the candidates by host
  ranged,    \* the keys of idmap the range loop has visited
  matchids,  \* the matches collected
  errs,      \* the errors collected, by host
  delegated, \* the candidate lists each host's matcher was called with
  aclRet     \* what the call returned

\* a DirTokenStore: its directory, the files in it and the last call made
VARIABLES
  store

\* Authenticate calls that run at the same time on one Authenticator: for
\* each its position, its conditions, its loop index, its Account variable
\* and what it returned
VARIABLES
  calls

authVars == <<now, cred, dis, pc, conds, i, account, accNil, ret>>
lpVars == <<matcher, cache, group, lookup, call, requests>>
aclVars == <<aclPc, aclCall, idmap, ranged, matchids, errs, delegated, aclRet>>
vars == <<authVars, lpVars, aclVars, store, calls>>

\* what each part leaves alone
notAuth == <<lpVars, aclVars, store, calls>>
notLp == <<authVars, aclVars, store, calls>>
notACL == <<authVars, lpVars, store, calls>>
notStore == <<authVars, lpVars, aclVars, calls>>

Config(g, c) == [SingleflightGroup |-> g, Cache |-> c]
NoRequests == [k \in Keys |-> [people |-> 0, teams |-> 0]]

\* no call has been made on the LaunchpadTeamMatcher
LpIdle ==
  /\ cache = [k \in Keys |-> NoEntry]
  /\ group = [k \in Keys |-> NoCaller]
  /\ lookup = [c \in Callers |-> NoLookup]
  /\ call = [c \in Callers |-> NoCall]
  /\ requests = NoRequests

ACLInput(kind, m, acc, ids) == [kind |-> kind, m |-> m, acc |-> acc, ids |-> ids]
NoACLInput == ACLInput("", [h \in Hosts |-> "nil"], ZeroAccount, <<>>)
ACLReturn(ids, err) == [ids |-> ids, err |-> err]
NoACLReturn == ACLReturn(<<>>, NoError)

\* no call is being made on the ACLMatcher
ACLIdle ==
  /\ aclPc = "idle"
  /\ aclCall = NoACLInput
  /\ idmap = [h \in IdHosts |-> <<>>]
  /\ ranged = {}
  /\ matchids = <<>>
  /\ errs = [h \in IdHosts |-> NoError]
  /\ delegated = [h \in IdHosts |-> <<>>]
  /\ aclRet = NoACLReturn


Return(isNil, acc, err) == [nil |-> isNil, acc |-> acc, err |-> err]
NoReturn == Return(TRUE, ZeroAccount, NoErr)

\* variant: the Account built so far is returned next to the error
returnError_KeepAccount(acc, err) == Return(FALSE, acc, err)

\* return nil, err: the Account built so far is dropped
returnError(acc, err) == Return(TRUE, ZeroAccount, err)
\* return &account, nil
returnAccount(acc) == Return(FALSE, acc, NoErr)

\* the error for a failure of VerifyMacaroon: a *bakery.VerificationError
\* gets the cause ErrUnauthorized, any other error is masked
verifyError(kind) ==
  IF kind = "verification"
    THEN Err(ErrUnauthorized, "verification failed", NoCond, "VerificationError")
    ELSE Err("masked", "cannot get macaroon", NoCond, kind)

\* errgo.WithCausef(nil, ErrUnauthorized, "invalid macaroon")
opsError == Err(ErrUnauthorized, "invalid macaroon", NoCond, "nil")

\* variant: errgo.Mask(err)
checkError_Masked(r) == Err("masked", r.msg, r.cav, "checker")

\* errgo.WithCausef(err, ErrUnauthorized, "") for the error of a checker
checkError(r) == Err(ErrUnauthorized, r.msg, r.cav, "checker")

\* the state of the authenticator before its first operation
AuthIdle ==
  /\ now = 1
  /\ cred = NoCred
  /\ dis = NoDis
  /\ pc = "idle"
  /\ conds = <<>>
  /\ i = 0
  /\ account = ZeroAccount
  /\ accNil = FALSE
  /\ ret = NoReturn

\* an Authenticator on its own: no matcher has been given a key, a caller or a
\* candidate, so the matchers' maps are empty
Init ==
  /\ AuthIdle
  /\ matcher = Config(FALSE, FALSE)
  /\ cache = <<>> /\ group = <<>> /\ lookup = <<>> /\ call = <<>>
  /\ requests = NoRequests
  /\ aclPc = "idle" /\ aclCall = NoACLInput /\ aclRet = NoACLReturn
  /\ idmap = <<>> /\ ranged = {} /\ matchids = <<>>
  /\ errs = <<>> /\ delegated = <<>>
  /\ store = <<>>
  /\ calls = <<>>

\* time passes
Tick ==
  /\ now < MaxNow
  /\ now' = now + 1
  /\ UNCHANGED <<cred, dis, pc, conds, i, account, accNil, ret>>
  /\ UNCHANGED notAuth

\* What Authenticator.Macaroon returns at time t: a credential for
\* ssoLoginOp that expires expireTime later, with the root key sealed in its
\* third-party caveat; or, when Oven.NewMacaroon, rand.Read or
\* AddThirdPartyCaveat failed, nil and the masked error
MacaroonResult(failed, rootKey, t) ==
  IF failed = ""
    THEN [m |-> Credential(<<ssoLoginOp>>, <<TimeBeforeCaveat(t + expireTime)>>,
                           AddThirdPartyCaveat(rootKey, Location)),
          err |-> NoErr]
    ELSE [m |-> NoCred, err |-> Err("masked", failed, NoCond, "nil")]

\* Authenticator.Macaroon, with a fresh root key; the client keeps what the
\* call returned
Macaroon ==
  /\ pc = "idle"
  /\ \E rootKey \in RootKeys,
        failed \in {"", "NewMacaroon", "rand.Read", "AddThirdPartyCaveat"} :
       cred' = MacaroonResult(failed, rootKey, now).m
  /\ dis' = NoDis
  /\ UNCHANGED <<now, pc, conds, i, account, accNil, ret>>
  /\ UNCHANGED notAuth

\* Another user of the oven mints a credential for other operations and
\* attaches the same kind of third-party caveat, writing the envelope
\* itself: with version 1 or with another version
NewMacaroon ==
  /\ pc = "idle"
  /\ \E ops \in ForeignOps, rootKey \in RootKeys, version \in {1, 2} :
       cred' = Credential(ops, <<>>,
                          [AddThirdPartyCaveat(rootKey, Location) EXCEPT !.Id.version = version])
  /\ dis' = NoDis
  /\ UNCHANGED <<now, pc, conds, i, account, accNil, ret>>
  /\ UNCHANGED notAuth

\* Discharger.Discharge(caveatID, acc, expires, validSince)
DischargeCaveats(acc, expires, validSince) ==
  (IF ~acc.nil THEN <<accountCaveat(acc.acc)>> ELSE <<>>)
  \o (IF ~IsZero(expires) THEN <<timeCaveat("expires", expires)>> ELSE <<>>)
  \o (IF ~IsZero(validSince) THEN <<timeCaveat("valid_since", validSince)>> ELSE <<>>)
  \o (IF ~acc.nil /\ ~IsZero(acc.acc.LastAuth)
        THEN <<timeCaveat("last_auth", acc.acc.LastAuth)>> ELSE <<>>)

\* variant: the version of the envelope is not looked at
DischargeResult_AnyVersion(caveatID, acc, w) ==
  [m |-> DischargeMacaroon(DecryptOAEP(DecodeString(caveatID.secret)),
                           DischargeCaveats(acc, w[1], w[2]), 0),
   err |-> ""]

\* What Discharge returns for an envelope: a discharge macaroon signed with
\* the key the secret holds, or nil and an error for a version other than 1
DischargeResult(caveatID, acc, w) ==
  IF caveatID.version # 1
    THEN [m |-> NoDis, err |-> "unsupported caveat version"]
    ELSE [m |-> DischargeMacaroon(DecryptOAEP(DecodeString(caveatID.secret)),
                                  DischargeCaveats(acc, w[1], w[2]), 0),
          err |-> ""]

\* the client asks the provider to discharge the third-party caveat of its
\* credential and keeps what the call returned
Discharge ==
  /\ pc = "idle"
  /\ cred # NoCred
  /\ \E acc \in DischargeAccounts, w \in DischargeWindows :
       dis' = DischargeResult(cred.tp.Id, acc, w).m
  /\ UNCHANGED <<now, cred, pc, conds, i, account, accNil, ret>>
  /\ UNCHANGED notAuth

\* the provider appends one more first-party caveat to the discharge
AddFirstPartyCaveat ==
  /\ pc = "idle"
  /\ dis # NoDis
  /\ dis.extra < MaxExtra
  /\ \E c \in ExtraCaveats :
       dis' = [dis EXCEPT !.caveats = Append(@, c), !.extra = @ + 1]
  /\ UNCHANGED <<now, cred, pc, conds, i, account, accNil, ret>>
  /\ UNCHANGED notAuth

\* Oven.VerifyMacaroon on the slice the client presents.  withRoot: the
\* slice starts with the credential; bound: the discharge was bound to the
\* credential's signature; storeFails: the root key store reports a failure
\* other than "not found".
VerifyMacaroon(withRoot, bound, storeFails) ==
  IF ~withRoot
    THEN [err |-> "verification", ops |-> <<>>, conditions |-> <<>>]
  ELSE IF storeFails
    THEN [err |-> "storage", ops |-> <<>>, conditions |-> <<>>]
  ELSE IF ~bound \/ dis.key # cred.tp.VerificationId
    THEN [err |-> "verification", ops |-> <<>>, conditions |-> <<>>]
  ELSE [err |-> "nil", ops |-> cred.ops, conditions |-> cred.caveats \o dis.caveats]

\* variant: only the first operation is looked at
opsOK_FirstOnly(ops) == Len(ops) >= 1 /\ ops[1] = ssoLoginOp

\* the test on the operations
opsOK(ops) == ~(Len(ops) # 1 \/ ops[1] # ssoLoginOp)

\* Authenticate up to the loop over the conditions
AuthenticateStart ==
  /\ pc = "idle"
  /\ cred # NoCred
  /\ dis # NoDis
  /\ \E withRoot \in BOOLEAN, bound \in BOOLEAN, storeFails \in BOOLEAN :
       LET v == VerifyMacaroon(withRoot, bound, storeFails) IN
       IF v.err # "nil"
         THEN /\ pc' = "done"
              /\ ret' = returnError(account, verifyError(v.err))
              /\ UNCHANGED <<conds, i>>
       ELSE IF ~opsOK(v.ops)
         THEN /\ pc' = "done"
              /\ ret' = returnError(account, opsError)
              /\ UNCHANGED <<conds, i>>
       ELSE IF v.conditions = <<>>
         THEN /\ pc' = "done"
              /\ ret' = returnAccount(account)
              /\ UNCHANGED <<conds, i>>
       ELSE /\ pc' = "checking"
            /\ conds' = v.conditions
            /\ i' = 1
            /\ UNCHANGED ret
  /\ UNCHANGED <<now, cred, dis, account, accNil>>
  /\ UNCHANGED notAuth

\* one iteration of the loop of Authenticate, and the return after the last
CheckNext ==
  /\ pc = "checking"
  /\ LET r == checkCondition(conds[i], account, accNil, now) IN
       CASE r.out = "panic" ->
              /\ pc' = "panic"
              /\ UNCHANGED <<i, account, accNil, ret>>
         [] r.out = "err" ->
              /\ pc' = "done"
              /\ account' = r.acc
              /\ ret' = returnError(r.acc, checkError(r))
              /\ UNCHANGED <<i, accNil>>
         [] OTHER ->
              /\ account' = r.acc
              /\ accNil' = r.isNil
              /\ i' = i + 1
              /\ IF i = Len(conds)
                   THEN pc' = "done" /\ ret' = returnAccount(r.acc)
                   ELSE pc' = "checking" /\ UNCHANGED ret
  /\ UNCHANGED <<now, cred, dis, conds>>
  /\ UNCHANGED notAuth

\* the caller takes the result; the call's locals are gone
Finish ==
  /\ pc = "done"
  /\ pc' = "idle"
  /\ conds' = <<>>
  /\ i' = 0
  /\ account' = ZeroAccount
  /\ accNil' = FALSE
  /\ ret' = NoReturn
  /\ UNCHANGED <<now, cred, dis>>
  /\ UNCHANGED notAuth

\* The loop of Authenticate from condition k on, with the clock standing at t
RECURSIVE runConditions(_, _, _, _, _)
runConditions(cs, k, acc, isNil, t) ==
  IF k > Len(cs)
    THEN [out |-> "ok", ret |-> returnAccount(acc)]
    ELSE LET r == checkCondition(cs[k], acc, isNil, t) IN
         CASE r.out = "panic" -> [out |-> "panic", ret |-> NoReturn]
           [] r.out = "err" -> [out |-> "err", ret |-> returnError(r.acc, checkError(r))]
           [] OTHER -> runConditions(cs, k + 1, r.acc, r.isNil, t)

Next ==
  \/ Tick
  \/ Macaroon
  \/ NewMacaroon
  \/ Discharge
  \/ AddFirstPartyCaveat
  \/ AuthenticateStart
  \/ CheckNext
  \/ Finish

Spec == Init /\ [][Next]_vars

(***************************************************************************)
(* Authenticate calls that run at the same time                            *)
(***************************************************************************)

\* variant: the Account is a field of the Authenticator, one for all calls
slot_Shared(c) == 1

\* "var account Account" in Authenticate and the pointer CaveatChecker
\* keeps to it: every call has its own
slot(c) == c

\* A call enters Authenticate: VerifyMacaroon has returned the conditions of
\* the slice the call was given (those of a discharge, with or without a
\* further account caveat before them), the operation is ssoLoginOp, the
\* Account is declared and its checker made; with no condition to check the
\* call returns at once.  The calls arrive in the order of their numbers.
ConcStart ==
  /\ \E c \in 1..MaxAuthCalls, a \in DischargeAccounts, w \in DischargeWindows,
        extra \in { <<>>, <<SSOCaveat("account", B64Payload(JSONNull))>> } :
       /\ calls[c].pc = "idle"
       /\ \A d \in 1..MaxAuthCalls : d < c => calls[d].pc # "idle"
       /\ LET cs == extra \o DischargeCaveats(a, w[1], w[2])
              declared == [calls EXCEPT ![slot(c)].account = ZeroAccount,
                                        ![slot(c)].accNil = FALSE]
          IN calls' = IF cs = <<>>
                        THEN [declared EXCEPT ![c].pc = "done",
                                              ![c].ret = returnAccount(ZeroAccount)]
                        ELSE [declared EXCEPT ![c].pc = "checking", ![c].conds = cs, ![c].i = 1]
  /\ UNCHANGED <<authVars, lpVars, aclVars, store>>

\* one iteration of the loop of a call, and the return after the last
ConcCheck ==
  /\ \E c \in 1..MaxAuthCalls :
       /\ calls[c].pc = "checking"
       /\ LET own == calls[slot(c)]
              r == checkCondition(calls[c].conds[calls[c].i], own.account, own.accNil, now)
              written == [calls EXCEPT ![slot(c)].account = r.acc, ![slot(c)].accNil = r.isNil]
          IN CASE r.out = "panic" ->
                    calls' = [calls EXCEPT ![c].pc = "panic"]
               [] r.out = "err" ->
                    calls' = [calls EXCEPT ![c].pc = "done",
                                           ![c].ret = returnError(r.acc, checkError(r))]
               [] calls[c].i = Len(calls[c].conds) ->
                    calls' = [written EXCEPT ![c].pc = "done", ![c].ret = returnAccount(r.acc)]
               [] OTHER ->
                    calls' = [written EXCEPT ![c].i = @ + 1]
  /\ UNCHANGED <<authVars, lpVars, aclVars, store>>

\* an Authenticator at some time of day on which no call has been made yet
ConcInit ==
  /\ now \in {1, MaxNow}
  /\ cred = NoCred /\ dis = NoDis
  /\ pc = "idle" /\ conds = <<>> /\ i = 0
  /\ account = ZeroAccount /\ accNil = FALSE /\ ret = NoReturn
  /\ matcher = Config(FALSE, FALSE)
  /\ LpIdle
  /\ ACLIdle
  /\ store = <<>>
  /\ calls = [c \in 1..MaxAuthCalls |->
               [pc |-> "idle", conds |-> <<>>, i |-> 0, account |-> ZeroAccount,
                accNil |-> FALSE, ret |-> NoReturn]]

\* Authenticate calls and Macaroon calls in any interleaving
ConcNext ==
  \/ ConcStart
  \/ ConcCheck
  \/ Macaroon

ConcSpec == ConcInit /\ [][ConcNext]_vars

(***************************************************************************)
(* LaunchpadTeamMatcher                                                    *)
(***************************************************************************)

\* the loop of MatchIdentity over ids and teams: each id once for every team
\* equal to it
RECURSIVE matchTeams(_, _)
matchTeams(ids, teams) ==
  IF ids = <<>> THEN <<>>
  ELSE SelectSeq(teams, LAMBDA t : t = Head(ids)) \o matchTeams(Tail(ids), teams)

\* the return of MatchIdentity once teams and err are set
matchReturn(ids, teams, err) == Matched(matchTeams(ids, teams), Mask(err))

\* The team list getLaunchpadTeams builds from a collection: an array of
\* total_size strings filled from the front with the entries that have a
\* web_link; i counts them.
collectTeams(person) ==
  LET names == SelectSeq(person.entries, LAMBDA e : e # EmptyString) IN
  [teams |-> names \o [k \in 1..(person.total_size - Len(names)) |-> EmptyString],
   i |-> Len(names)]

\* variant: nothing is stored
cacheAdd_Never(m, entries, key, teams, err) == entries

\* variant: what was collected is stored whether or not the iteration failed
cacheAdd_OnError(m, entries, key, teams, err) ==
  IF m.Cache THEN [entries EXCEPT ![key] = Entry(teams)] ELSE entries

\* variant: the cache has one slot, whatever the key
cacheAdd_AnyKey(m, entries, key, teams, err) ==
  IF m.Cache /\ err = NoError THEN [k \in DOMAIN entries |-> Entry(teams)] ELSE entries

\* m.Cache.Add(openID, teams) when a cache is configured and the iteration
\* over the collection gave no error
cacheAdd(m, entries, key, teams, err) ==
  IF m.Cache /\ err = NoError THEN [entries EXCEPT ![key] = Entry(teams)] ELSE entries

\* MatchIdentity returns: the call is over, its context and channel with it
returned(cl, teams, err) ==
  [cl EXCEPT !.pc = "done", !.ctx = "", !.ch = NoResult, !.ret = matchReturn(cl.ids, teams, err)]

\* variant: a call for a key never joins the call in flight
joins_Never(g, key) == FALSE

\* DoChan finds a call for the key in the group's map
joins(g, key) == g[key] # NoCaller

\* variant: the lookup gives up when the context it was started with is done
getLaunchpadTeams_ObeysContext(ctx, val, err) ==
  IF ctx # "" THEN Result(<<>>, ctxErr(ctx)) ELSE Result(val, Mask(err))

\* what getLaunchpadTeams(ctx, openID) returns after the directory answered:
\* the context plays no part in it
getLaunchpadTeams(ctx, val, err) == Result(val, Mask(err))

\* variant: only the caller that started the shared call gets its value
received_StarterOnly(c, s, r) ==
  LET mine == IF c # s THEN Result(<<>>, r.Err) ELSE r IN
  CASE call[c].pc = "parked" -> returned(call[c], mine.Val, mine.Err)
    [] call[c].pc = "done" -> call[c]
    [] OTHER -> [call[c] EXCEPT !.ch = mine]

\* doCall of caller s sends the Result on the channel of waiter c; a waiter
\* parked in its select takes it at once and returns, a waiter that has
\* returned already never looks at its channel again
received(c, s, r) ==
  CASE call[c].pc = "parked" -> returned(call[c], r.Val, r.Err)
    [] call[c].pc = "done" -> call[c]
    [] OTHER -> [call[c] EXCEPT !.ch = r]

\* variant: the channels of the group have no buffer, so doCall cannot send
\* while a caller of the call has returned without reading its channel
complete_Unbuffered(s, val, err) ==
  LET r == getLaunchpadTeams(call[s].ctx, val, err) IN
  /\ matcher.SingleflightGroup => \A c \in lookup[s].chans : call[c].pc # "done"
  /\ lookup' = [lookup EXCEPT ![s].stage = "done", ![s].out = r]
  /\ IF matcher.SingleflightGroup
       THEN /\ group' = [group EXCEPT ![lookup[s].key] = NoCaller]
            /\ call' = [c \in Callers |->
                          IF c \in lookup[s].chans THEN received(c, s, r) ELSE call[c]]
       ELSE /\ UNCHANGED group
            /\ call' = [call EXCEPT ![s] = returned(call[s], r.Val, r.Err)]

\* variant: doCall leaves the key in the group's map
complete_KeepsKey(s, val, err) ==
  LET r == getLaunchpadTeams(call[s].ctx, val, err) IN
  /\ lookup' = [lookup EXCEPT ![s].stage = "done", ![s].out = r]
  /\ UNCHANGED group
  /\ IF matcher.SingleflightGroup
       THEN call' = [c \in Callers |->
                       IF c \in lookup[s].chans THEN received(c, s, r) ELSE call[c]]
       ELSE call' = [call EXCEPT ![s] = returned(call[s], r.Val, r.Err)]

\* getLaunchpadTeams of caller s returns (val, err): with a group doCall
\* removes the key and sends the Result to every channel of the call;
\* without one MatchIdentity of s goes on to its return
complete(s, val, err) ==
  LET r == getLaunchpadTeams(call[s].ctx, val, err) IN
  /\ lookup' = [lookup EXCEPT ![s].stage = "done", ![s].out = r]
  /\ IF matcher.SingleflightGroup
       THEN /\ group' = [group EXCEPT ![lookup[s].key] = NoCaller]
            /\ call' = [c \in Callers |->
                          IF c \in lookup[s].chans THEN received(c, s, r) ELSE call[c]]
       ELSE /\ UNCHANGED group
            /\ call' = [call EXCEPT ![s] = returned(call[s], r.Val, r.Err)]

\* MatchIdentity up to its first blocking point: the subject key, then
\* DoChan (join the call in flight for the key, or start one) or, without a
\* group, the call of getLaunchpadTeams.  The context of the call may be
\* done already: its deadline has passed.
LaunchpadMatchIdentity ==
  /\ \E c \in Callers, acc \in LpAccounts, ids \in LpCandidates :
       /\ call[c].pc = "idle"
       /\ \A d \in Callers : d < c => call[d].pc # "idle"
       /\ LET oid == DefaultLaunchpadOpenID(acc) IN
          IF oid = EmptyString
            THEN /\ call' = [call EXCEPT ![c] =
                               Call("done", acc, ids, oid, "", NoResult, NoCaller, NoMatched)]
                 /\ UNCHANGED <<group, lookup>>
          ELSE \E ctx \in {"", "deadline"} :
            LET cl == Call("idle", acc, ids, oid, ctx, NoResult, NoCaller, NoMatched) IN
            IF ~matcher.SingleflightGroup
              THEN /\ call' = [call EXCEPT ![c] = [cl EXCEPT !.pc = "lookup", !.joined = c]]
                   /\ lookup' = [lookup EXCEPT ![c] = Lookup("start", oid, {c}, NoResult)]
                   /\ UNCHANGED group
            ELSE IF joins(group, oid)
              THEN /\ call' = [call EXCEPT ![c] =
                                 [cl EXCEPT !.pc = "select", !.joined = group[oid]]]
                   /\ lookup' = [lookup EXCEPT ![group[oid]].chans = @ \cup {c}]
                   /\ UNCHANGED group
            ELSE /\ call' = [call EXCEPT ![c] = [cl EXCEPT !.pc = "select", !.joined = c]]
                 /\ lookup' = [lookup EXCEPT ![c] = Lookup("start", oid, {c}, NoResult)]
                 /\ group' = [group EXCEPT ![oid] = c]
  /\ UNCHANGED <<matcher, cache, requests>>
  /\ UNCHANGED notLp

\* the select of MatchIdentity: one of the ready cases, or the caller parks
Select ==
  /\ \E c \in Callers :
       /\ call[c].pc = "select"
       /\ \/ /\ call[c].ch.full
             /\ call' = [call EXCEPT ![c] = returned(call[c], call[c].ch.Val, call[c].ch.Err)]
          \/ /\ call[c].ctx # ""
             /\ call' = [call EXCEPT ![c] = returned(call[c], <<>>, ctxErr(call[c].ctx))]
          \/ /\ ~call[c].ch.full
             /\ call[c].ctx = ""
             /\ call' = [call EXCEPT ![c].pc = "parked"]
  /\ UNCHANGED <<matcher, cache, group, lookup, requests>>
  /\ UNCHANGED notLp

\* a caller's context is canceled while its call runs;
\* a caller parked in its select takes the Done case and returns
Cancel ==
  /\ \E c \in Callers, done \in {"canceled"} :
       /\ call[c].pc \in {"select", "parked", "lookup"}
       /\ call[c].ctx = ""
       /\ call' = [call EXCEPT ![c] =
                     IF call[c].pc = "parked"
                       THEN returned(call[c], <<>>, ctxErr(done))
                       ELSE [call[c] EXCEPT !.ctx = done]]
  /\ UNCHANGED <<matcher, cache, group, lookup, requests>>
  /\ UNCHANGED notLp

\* getLaunchpadTeams up to its first request: the cache, lpad.Login, then
\* the request for the person
LookupStart ==
  /\ \E s \in Callers, login \in {"ok", "error"} :
       /\ lookup[s].stage = "start"
       /\ LET key == lookup[s].key IN
          IF matcher.Cache /\ cache[key].ok
            THEN /\ login = "ok"
                 /\ complete(s, cache[key].teams, NoError)
                 /\ UNCHANGED requests
          ELSE IF login = "error"
            THEN /\ complete(s, <<>>, lpadError("login"))
                 /\ UNCHANGED requests
          ELSE /\ lookup' = [lookup EXCEPT ![s].stage = "people"]
               /\ requests' = [requests EXCEPT ![key].people = @ + 1]
               /\ UNCHANGED <<group, call>>
  /\ UNCHANGED <<matcher, cache>>
  /\ UNCHANGED notLp

\* the directory answers the request for the person: found (then the
\* request for the super_teams collection follows), not found, or a failure
PeopleReply ==
  /\ \E s \in Callers, reply \in {"ok", "error"} :
       /\ lookup[s].stage = "people"
       /\ LET key == lookup[s].key IN
          IF reply = "error"
            THEN /\ complete(s, <<>>, lpadError("people"))
                 /\ UNCHANGED requests
          ELSE IF ~Directory[key].found
            THEN /\ complete(s, <<>>, NoError)
                 /\ UNCHANGED requests
          ELSE /\ lookup' = [lookup EXCEPT ![s].stage = "teams"]
               /\ requests' = [requests EXCEPT ![key].teams = @ + 1]
               /\ UNCHANGED <<group, call>>
  /\ UNCHANGED <<matcher, cache>>
  /\ UNCHANGED notLp

\* the directory answers the request for the collection: the Get fails, the
\* iteration fails after the first entry, or the whole collection is read
\* and, with a cache, stored
TeamsReply ==
  /\ \E s \in Callers, reply \in {"ok", "error", "forError"} :
       /\ lookup[s].stage = "teams"
       /\ LET key == lookup[s].key
              t == collectTeams(Directory[key]) IN
          CASE reply = "error" ->
                 /\ complete(s, <<>>, lpadError("teams"))
                 /\ UNCHANGED cache
            [] reply = "forError" ->
                 /\ complete(s, SubSeq(t.teams, 1, 1), lpadError("for"))
                 /\ cache' = cacheAdd(matcher, cache, key, t.teams, lpadError("for"))
            [] OTHER ->
                 /\ complete(s, SubSeq(t.teams, 1, t.i), NoError)
                 /\ cache' = cacheAdd(matcher, cache, key, t.teams, NoError)
  /\ UNCHANGED <<matcher, requests>>
  /\ UNCHANGED notLp

LpInit ==
  /\ AuthIdle
  /\ ACLIdle
  /\ matcher \in { Config(g, c) : g \in BOOLEAN, c \in BOOLEAN }
  /\ LpIdle
  /\ store = <<>>
  /\ calls = <<>>

LpNext ==
  \/ LaunchpadMatchIdentity
  \/ Select
  \/ Cancel
  \/ LookupStart
  \/ PeopleReply
  \/ TeamsReply

LpSpec == LpInit /\ [][LpNext]_vars

\* A matcher with a group whose callers all ask for the same subject, under
\* the scheduling the Go runtime gives: a caller that is in its select with
\* a ready case is run.  Nothing is assumed of the directory and of the
\* callers' contexts.
LpLiveInit == LpInit /\ matcher.SingleflightGroup

LpLiveNext ==
  \/ LaunchpadMatchIdentity /\ \A c \in Callers : call'[c].pc # "idle" => call'[c].oid = KeyA
  \/ Select
  \/ Cancel
  \/ LookupStart
  \/ PeopleReply
  \/ TeamsReply

LpLiveSpec == LpLiveInit /\ [][LpLiveNext]_vars /\ WF_vars(Select)

(***************************************************************************)
(* AccountMatcher and ACLMatcher                                           *)
(***************************************************************************)

\* the candidate lists of a call
IdLists == UNION { [1..n -> ACLCandidates] : n \in 0..MaxIds }

\* variant: the provider of the account is not compared
AccountMatch_AnyProvider(acc, ids) ==
  SelectSeq(ids, LAMBDA id : id.sep = "+id/" /\ id.name = acc.OpenID)

\* AccountMatcher.MatchIdentity: the loop that appends every id equal to accid
RECURSIVE AccountMatch(_, _)
AccountMatch(acc, ids) ==
  IF ids = <<>> THEN <<>>
  ELSE (IF Head(ids) = accid(acc) THEN <<Head(ids)>> ELSE <<>>) \o AccountMatch(acc, Tail(ids))

\* the first loop of ACLMatcher.MatchIdentity: the ids that parse, by host
RECURSIVE byHost(_, _)
byHost(ids, h) ==
  IF ids = <<>> THEN <<>>
  ELSE LET u == urlParse(Head(ids)) IN
       (IF ~u.err /\ u.Host = h THEN <<Head(ids)>> ELSE <<>>) \o byHost(Tail(ids), h)

\* the keys of the map
keys(im) == { h \in IdHosts : im[h] # <<>> }

\* m[k]: the matcher registered for the host, nil if there is none
matcherFor(m, k) == IF k \in DOMAIN m THEN m[k] ELSE "nil"

\* variant: a host without a matcher is reported as a failure
delegate_MissingIsError(m, k, acc, v) ==
  CASE matcherFor(m, k) = "AccountMatcher" ->
         [called |-> TRUE, mids |-> AccountMatch(acc, v), err |-> NoError]
    [] matcherFor(m, k) = "errorMatcher" ->
         [called |-> TRUE, mids |-> <<>>, err |-> NewError(k)]
    [] OTHER -> [called |-> FALSE, mids |-> <<>>, err |-> NewError("no matcher")]

\* the body of the second loop for key k with candidates v: nothing for a
\* nil matcher, else the matcher's MatchIdentity (an errorMatcher returns
\* the error it was built with, here named after its host)
delegate(m, k, acc, v) ==
  CASE matcherFor(m, k) = "AccountMatcher" ->
         [called |-> TRUE, mids |-> AccountMatch(acc, v), err |-> NoError]
    [] matcherFor(m, k) = "errorMatcher" ->
         [called |-> TRUE, mids |-> <<>>, err |-> NewError(k)]
    [] OTHER -> [called |-> FALSE, mids |-> <<>>, err |-> NoError]

\* variant: the loop stops at the first error
rangeOver_FailFast(im, visited, es) ==
  IF \E h \in IdHosts : es[h] # NoError THEN {} ELSE keys(im) \ visited

\* the keys the range loop has still to visit
rangeOver(im, visited, es) == keys(im) \ visited

\* variant: one error stands for all
ACLMatchError_First(es) ==
  LET failed == { h \in IdHosts : es[h] # NoError } IN
  IF failed = {} THEN NoError
  ELSE LET f == CHOOSE h \in failed : TRUE IN
       [kind |-> "ACLMatchError", Errors |-> [h \in {f} |-> es[h]]]

\* the error MatchIdentity returns: nil if errs is empty, else
\* &ACLMatchError{Errors: errs}
ACLMatchError(es) ==
  LET failed == { h \in IdHosts : es[h] # NoError } IN
  IF failed = {} THEN NoError
  ELSE [kind |-> "ACLMatchError", Errors |-> [h \in failed |-> es[h]]]

\* AccountMatcher{}.MatchIdentity(ctx, acc, ids)
AccountMatchIdentity ==
  /\ aclPc = "idle"
  /\ \E acc \in ACLAccounts, ids \in IdLists :
       /\ aclCall' = ACLInput("AccountMatcher", NoACLInput.m, acc, ids)
       /\ aclRet' = ACLReturn(AccountMatch(acc, ids), NoError)
  /\ aclPc' = "done"
  /\ UNCHANGED <<idmap, ranged, matchids, errs, delegated>>
  /\ UNCHANGED notACL

\* ACLMatcher.MatchIdentity up to its second loop
ACLMatchIdentity ==
  /\ aclPc = "idle"
  /\ \E m \in ACLMatchers, acc \in ACLAccounts, ids \in IdLists :
       /\ aclCall' = ACLInput("ACLMatcher", m, acc, ids)
       /\ idmap' = [h \in IdHosts |-> byHost(ids, h)]
  /\ aclPc' = "ranging"
  /\ UNCHANGED <<ranged, matchids, errs, delegated, aclRet>>
  /\ UNCHANGED notACL

\* one iteration of the second loop; range visits the keys in any order
ACLRange ==
  /\ aclPc = "ranging"
  /\ \E k \in rangeOver(idmap, ranged, errs) :
       LET r == delegate(aclCall.m, k, aclCall.acc, idmap[k]) IN
       /\ ranged' = ranged \cup {k}
       /\ matchids' = matchids \o r.mids
       /\ errs' = [errs EXCEPT ![k] = r.err]
       /\ delegated' = IF r.called THEN [delegated EXCEPT ![k] = Append(@, idmap[k])]
                                   ELSE delegated
  /\ UNCHANGED <<aclPc, aclCall, idmap, aclRet>>
  /\ UNCHANGED notACL

\* the return of ACLMatcher.MatchIdentity after the loop
ACLReturns ==
  /\ aclPc = "ranging"
  /\ rangeOver(idmap, ranged, errs) = {}
  /\ aclRet' = ACLReturn(matchids, ACLMatchError(errs))
  /\ aclPc' = "done"
  /\ UNCHANGED <<aclCall, idmap, ranged, matchids, errs, delegated>>
  /\ UNCHANGED notACL

\* the caller takes the result; the call's locals are gone
ACLFinish ==
  /\ aclPc = "done"
  /\ aclPc' = "idle"
  /\ aclCall' = NoACLInput
  /\ idmap' = [h \in IdHosts |-> <<>>]
  /\ ranged' = {}
  /\ matchids' = <<>>
  /\ errs' = [h \in IdHosts |-> NoError]
  /\ delegated' = [h \in IdHosts |-> <<>>]
  /\ aclRet' = NoACLReturn
  /\ UNCHANGED notACL

ACLInit ==
  /\ AuthIdle
  /\ matcher = Config(FALSE, FALSE)
  /\ LpIdle
  /\ ACLIdle
  /\ store = <<>>
  /\ calls = <<>>

ACLNext ==
  \/ AccountMatchIdentity
  \/ ACLMatchIdentity
  \/ ACLRange
  \/ ACLReturns
  \/ ACLFinish

ACLSpec == ACLInit /\ [][ACLNext]_vars

(***************************************************************************)
(* Package store: DirTokenStore                                            *)
(***************************************************************************)

\* The URLs the store is called with, as sequences of characters: two that
\* differ in one character outside the file name alphabet, and a third.
StoreURLs ==
  { <<"s", ":", "a", "/", "1">>, <<"s", ":", "a", ":", "1">>, <<"s", ":", "b", ".", "1">> }

\* the tokens of the calls; "" is the empty token
StoreTokens == {"", "test-token", "popeye"}

\* filenameForURL: letters, digits, '.', '_' and '-' are kept, every other
\* character becomes '-'
RECURSIVE filenameForURL(_)
filenameForURL(url) ==
  IF url = <<>> THEN <<>>
  ELSE LET c == Head(url) IN
       <<IF c \in {"s", "a", "b", "1", ".", "_", "-"} THEN c ELSE "-">>
         \o filenameForURL(Tail(url))

\* A store whose directory exists or not, with no token file in it.  files
\* gives the content of each file ("" for a file that is not there); last,
\* set and mkdir record the calls: the token of the most recent Set of each
\* URL, the URL of the most recent Set, and whether that Set made the
\* directory.
DirTokenStore(exists) ==
  [dir |-> exists,
   files |-> [f \in { filenameForURL(u) : u \in StoreURLs } |-> ""],
   last |-> [u \in StoreURLs |-> ""],
   set |-> <<>>,
   mkdir |-> FALSE,
   ret |-> [op |-> "", url |-> <<>>, token |-> "", err |-> "nil"]]

\* Get: ReadFile of the URL's file; a file or a directory that does not
\* exist gives no token and no error
StoreGet ==
  /\ \E url \in StoreURLs :
       store' = [store EXCEPT
                   !.ret = [op |-> "Get", url |-> url,
                            token |-> store.files[filenameForURL(url)], err |-> "nil"]]
  /\ UNCHANGED notStore

\* variant: the directory is never made
MkdirAll_Never(exists) == exists

\* os.MkdirAll(string(s), 0700): the directory exists afterwards
MkdirAll(exists) == TRUE

\* Set: an empty token removes the URL's file (no error if there is none);
\* any other token makes the directory if need be and writes the file,
\* which fails in a directory that does not exist
StoreSet ==
  /\ \E url \in StoreURLs, token \in StoreTokens :
       LET dir == IF token = "" THEN store.dir ELSE MkdirAll(store.dir) IN
       store' = [store EXCEPT
                   !.dir = dir,
                   !.files[filenameForURL(url)] = IF token # "" /\ ~dir THEN @ ELSE token,
                   !.last[url] = token,
                   !.set = url,
                   !.mkdir = (dir /\ ~store.dir),
                   !.ret = [op |-> "Set", url |-> url, token |-> token,
                            err |-> IF token # "" /\ ~dir THEN "not exist" ELSE "nil"]]
  /\ UNCHANGED notStore

StoreInit ==
  /\ AuthIdle
  /\ matcher = Config(FALSE, FALSE)
  /\ LpIdle
  /\ ACLIdle
  /\ store \in { DirTokenStore(exists) : exists \in BOOLEAN }
  /\ calls = <<>>

StoreNext ==
  \/ StoreGet
  \/ StoreSet

StoreSpec == StoreInit /\ [][StoreNext]_vars

(***************************************************************************)
(* Properties                                                              *)
(***************************************************************************)

\* c is a caveat of the configured provider with the given name
IsSSO(c, name) == c.n >= 2 /\ c.p0 = Location /\ c.p1 = name

\* condition k of the running or finished call has been checked
Evaluated(k) == (pc \in {"done", "panic"} /\ i = k) \/ i > k

\* the call ended with an error raised for condition k
StoppedAt(k) == pc = "done" /\ i = k /\ ret.err # NoErr

\* a step that checks condition i
CheckStep == pc = "checking" /\ (pc' # "checking" \/ i' # i)

InsertAt(cs, pos, c) == SubSeq(cs, 1, pos - 1) \o <<c>> \o SubSeq(cs, pos, Len(cs))

\* the inputs of Discharge in a round trip: an account with a last-auth
\* time, and both ends of the validity window
RoundTripInputs ==
  { in \in DischargeAccounts \X DischargeWindows :
      ~in[1].nil /\ ~IsZero(in[1].acc.LastAuth) /\ ~IsZero(in[2][1]) /\ ~IsZero(in[2][2]) }

\* A call on the bound slice of a credential minted by Macaroon and its
\* discharge for in has finished, within the credential's lifetime, before
\* the expires caveat's time, with valid_since earlier than the minting.
RoundTripDone(in) ==
  /\ pc = "done"
  /\ cred.ops = <<ssoLoginOp>>
  /\ Len(cred.caveats) = 1
  /\ dis.extra = 0
  /\ dis.caveats = DischargeCaveats(in[1], in[2][1], in[2][2])
  /\ conds = cred.caveats \o dis.caveats
  /\ now < cred.caveats[1].arg
  /\ now < Parse(Format(in[2][1]))
  /\ Parse(Format(in[2][2])) < cred.caveats[1].arg - expireTime

\* C1: a credential minted by Macaroon, discharged with an account caveat
\* encoding A, expires in the future, valid_since in the past and a last_auth
\* caveat, and authenticated while it is alive, yields no error and the
\* Account with A's identity fields, the configured location as Provider and
\* the last_auth caveat's value as LastAuth.
C1_RoundTrip ==
  \A in \in RoundTripInputs :
    RoundTripDone(in) =>
      ret = Return(FALSE,
                   Account(Location, Identity(in[1].acc),
                           Parse(dis.caveats[Len(dis.caveats)].p2.ts)),
                   NoErr)

C1_Witness ==
  \E in \in RoundTripInputs :
    /\ RoundTripDone(in)
    /\ ret.err = NoErr
    /\ ret.acc.OpenID = in[1].acc.OpenID
    /\ ret.acc.LastAuth # in[1].acc.LastAuth

\* C2 as stated: every error Authenticate returns has cause ErrUnauthorized.
C2_EveryErrorUnauthorized ==
  (pc = "done" /\ ret.err # NoErr) => ret.err.cause = ErrUnauthorized

\* C2 amended: every error Authenticate returns has cause ErrUnauthorized,
\* except an error of VerifyMacaroon that is not a *bakery.VerificationError,
\* which is returned masked.
C2_UnauthorizedUnlessOtherVerifyError ==
  (pc = "done" /\ ret.err # NoErr) =>
    /\ ret.err.under \in {"VerificationError", "nil", "checker"} => ret.err.cause = ErrUnauthorized
    /\ ret.err.under \notin {"VerificationError", "nil", "checker"} =>
         (i = 0 /\ ret.err.cause # ErrUnauthorized)

C2_Witness ==
  /\ pc = "done"
  /\ i >= 1
  /\ ret.err.under = "checker"
  /\ ret.err.msg = "caveat not recognized"
  /\ ret.err.cause = ErrUnauthorized

\* C3: an error comes with a nil Account, and the call has stopped at the
\* failing condition: no later condition is checked.
C3_ErrorMeansNilAccount ==
  (pc = "done" /\ ret.err # NoErr) =>
    /\ ret.nil
    /\ ret.acc = ZeroAccount
    /\ i <= Len(conds)
    /\ ~ENABLED CheckNext

C3_Witness ==
  /\ pc = "done"
  /\ ret.err # NoErr
  /\ ret.nil
  /\ account # ZeroAccount
  /\ 1 <= i /\ i < Len(conds)

\* C4: once a second account caveat of the provider is checked, whatever
\* the payloads of the two and whatever lies between them, the call ends
\* there with a "duplicate caveat" error for it.
C4_SecondAccountIsDuplicate ==
  \A k \in 1..Len(conds) :
    (/\ IsSSO(conds[k], "account") /\ conds[k].n = 3
     /\ \E j \in 1..(k - 1) : IsSSO(conds[j], "account") /\ conds[j].n = 3
     /\ Evaluated(k))
    => (StoppedAt(k) /\ ret.nil /\ ret.err.msg = "duplicate caveat" /\ ret.err.cav = conds[k])

\* C5: once a second last_auth caveat of the provider is checked, whatever
\* the timestamps the two carry, the call ends there with a "duplicate
\* caveat" error for it.
C5_SecondLastAuthIsDuplicate ==
  \A k \in 1..Len(conds) :
    (/\ IsSSO(conds[k], "last_auth") /\ conds[k].n = 3 /\ TimeValid(conds[k].p2)
     /\ \E j \in 1..(k - 1) :
          IsSSO(conds[j], "last_auth") /\ conds[j].n = 3 /\ TimeValid(conds[j].p2)
     /\ Evaluated(k))
    => (StoppedAt(k) /\ ret.nil /\ ret.err.msg = "duplicate caveat" /\ ret.err.cav = conds[k])

\* C6: the check of an expires caveat with time t passes if the clock is
\* strictly before t, and otherwise ends the call with "macaroon expired".
C6_ExpiresStrict ==
  [][ (CheckStep /\ IsSSO(conds[i], "expires") /\ conds[i].n = 3 /\ TimeValid(conds[i].p2)) =>
        IF now < Parse(conds[i].p2.ts)
          THEN i' = i + 1 /\ (pc' = "done" => ret'.err = NoErr)
          ELSE /\ pc' = "done" /\ i' = i
               /\ ret'.nil
               /\ ret'.err.msg = "macaroon expired"
               /\ ret'.err.cause = ErrUnauthorized ]_vars

\* an expires caveat failed exactly on its boundary, after another passed
C6_Witness ==
  /\ StoppedAt(i)
  /\ i >= 1
  /\ IsSSO(conds[i], "expires")
  /\ ret.err.msg = "macaroon expired"
  /\ now = Parse(conds[i].p2.ts)
  /\ \E j \in 1..(i - 1) : IsSSO(conds[j], "expires")

\* C7: the check of a valid_since caveat with time t passes if the clock is
\* strictly after t, and otherwise ends the call with "macaroon not yet valid".
C7_ValidSinceStrict ==
  [][ (CheckStep /\ IsSSO(conds[i], "valid_since") /\ conds[i].n = 3 /\ TimeValid(conds[i].p2)) =>
        IF now > Parse(conds[i].p2.ts)
          THEN i' = i + 1 /\ (pc' = "done" => ret'.err = NoErr)
          ELSE /\ pc' = "done" /\ i' = i
               /\ ret'.nil
               /\ ret'.err.msg = "macaroon not yet valid"
               /\ ret'.err.cause = ErrUnauthorized ]_vars

\* a valid_since caveat failed exactly on its boundary
C7_Witness ==
  /\ StoppedAt(i)
  /\ i >= 1
  /\ IsSSO(conds[i], "valid_since")
  /\ ret.err.msg = "macaroon not yet valid"
  /\ now = Parse(conds[i].p2.ts)

UnknownCaveats == { SSOCaveat("unknown", Garbage), SSOCaveatNoPayload("unknown") }

\* C8: a provider caveat with an unknown name passes and leaves the
\* checker's state alone, and inserting one anywhere among the conditions
\* still to be checked changes neither the outcome nor the Account.
C8_UnknownCaveatIgnored ==
  (pc = "checking" /\ i = 1) =>
    LET without == runConditions(conds, 1, account, accNil, now) IN
    \A u \in UnknownCaveats :
      /\ \A pos \in 1..(Len(conds) + 1) :
           runConditions(InsertAt(conds, pos, u), 1, account, accNil, now) = without
      /\ \A acc \in {account, without.ret.acc}, isNil \in BOOLEAN :
           checkCondition(u, acc, isNil, now) = CheckPassed(acc, isNil)

C8_Witness ==
  /\ pc = "done"
  /\ ret.err = NoErr
  /\ ~ret.nil
  /\ ret.acc.OpenID # ""
  /\ \E k \in 1..Len(conds) : IsSSO(conds[k], "unknown")

\* a provider caveat whose payload is missing or does not parse
Malformed(c) ==
  \/ IsSSO(c, "account") /\ (c.n < 3 \/ ~B64Valid(c.p2) \/ c.p2.js.jk = "invalid")
  \/ /\ \E name \in {"expires", "valid_since", "last_auth"} : IsSSO(c, name)
     /\ (c.n < 3 \/ ~TimeValid(c.p2))

\* C9: once a malformed provider caveat is checked, the call ends there
\* with an ErrUnauthorized error whose message quotes the caveat.
C9_MalformedRejected ==
  \A k \in 1..Len(conds) :
    (Malformed(conds[k]) /\ Evaluated(k))
    => (StoppedAt(k) /\ ret.nil /\ ret.err.cause = ErrUnauthorized /\ ret.err.cav = conds[k])

\* C10: a call succeeds only for the single operation ssoLoginOp; for other
\* operations it returns nil and, verification having passed, the
\* ErrUnauthorized error "invalid macaroon", and no condition is checked.
C10_LoginOpOnly ==
  pc = "done" =>
    /\ ret.err = NoErr => (Len(cred.ops) = 1 /\ cred.ops[1] = ssoLoginOp)
    /\ cred.ops # <<ssoLoginOp>> =>
         /\ ret.nil /\ ret.err # NoErr
         /\ i = 0 /\ conds = <<>> /\ account = ZeroAccount
         /\ \/ ret.err.under \in {"VerificationError", "storage"}
            \/ ret.err.msg = "invalid macaroon" /\ ret.err.cause = ErrUnauthorized

C10_Witness ==
  /\ pc = "done"
  /\ cred.ops = <<ssoLoginOp, testOp>>
  /\ ret.nil
  /\ ret.err.msg = "invalid macaroon"
  /\ ret.err.cause = ErrUnauthorized

(* ---- LaunchpadTeamMatcher ---- *)

\* the causes errgo.Mask lets through in MatchIdentity
Cancellation == {"canceled", "deadline"}

\* the lookups for key k that have not returned yet
InFlight(k) == { s \in Callers : lookup[s].key = k /\ lookup[s].stage \in {"start", "people", "teams"} }

\* caller c returns in this step
Returns(c) == call[c].pc # "done" /\ call'[c].pc = "done"

\* caller c is parked and woken by the cancellation of its context in this step
WokenByCancel(c) == call[c].pc = "parked" /\ call'[c].pc = "done" /\ lookup' = lookup

\* C11: with a dedup group at most one lookup per subject key is in flight
\* at any time, and a caller that joined another caller's lookup has started
\* none of its own
C11_OneLookupInFlight ==
  matcher.SingleflightGroup =>
    /\ \A k \in Keys : Cardinality(InFlight(k)) <= 1
    /\ \A c \in Callers :
         call[c].joined \notin {NoCaller, c} => lookup[c] = NoLookup

\* a second caller has joined the lookup of the first while its request for
\* the person is with the directory
C11_Witness ==
   (/\ matcher.SingleflightGroup
    /\ \E s, c \in Callers :
         /\ s # c
         /\ lookup[s].stage = "people"
         /\ call[c].joined = s
         /\ call[c].pc = "parked"
         /\ requests[lookup[s].key].people = 1)

\* C12: callers that joined the same lookup and took its result returned the
\* same error and, for equal candidate lists, the same matches
C12_SameOutcome ==
  matcher.SingleflightGroup =>
    \A c, d \in Callers :
      ( /\ call[c].pc = "done" /\ call[d].pc = "done"
        /\ call[c].joined # NoCaller /\ call[c].joined = call[d].joined
        /\ call[c].ret.err.cause \notin Cancellation
        /\ call[d].ret.err.cause \notin Cancellation )
      => /\ call[c].ret.err = call[d].ret.err
         /\ call[c].ids = call[d].ids => call[c].ret.rids = call[d].ret.rids

\* two callers of one lookup have both returned its team match; two others
\* have both returned its failure
C12_Witness ==
   (/\ matcher.SingleflightGroup
    /\ \E c, d \in Callers :
         /\ c # d
         /\ call[c].pc = "done" /\ call[d].pc = "done"
         /\ call[c].joined = c /\ call[d].joined = c
         /\ call[c].ret = Matched(<<test1>>, NoError)
         /\ call[d].ret = Matched(<<test1>>, NoError))

\* C13: with a dedup group a caller whose context is done, at the call
\* already or while it waits, returns the context's error and no match
C13_CanceledSeesCancellation ==
  [][ matcher.SingleflightGroup =>
        \A c \in Callers :
          (Returns(c) /\ (call[c].ctx # "" \/ WokenByCancel(c)))
          => /\ call'[c].ret.err.cause \in Cancellation
             /\ call'[c].ret.rids = <<>> ]_vars

\* C14: the cancellation of a caller leaves the lookups, the requests and the
\* group as they are, and a caller that is not canceled returns the outcome
\* of the lookup it joined, which is no cancellation
C14_CancelLeavesOthers ==
  [][ matcher.SingleflightGroup =>
        /\ (\E c \in Callers : call[c].pc # "idle" /\ call[c].ctx = "" /\ call'[c].ctx # "")
             => UNCHANGED <<lookup, requests, group, cache>>
        /\ \A c \in Callers :
             (Returns(c) /\ call[c].ctx = "" /\ ~WokenByCancel(c) /\ call[c].joined # NoCaller)
             => LET out == lookup'[call[c].joined].out IN
                /\ out.full
                /\ out.Err.cause \notin Cancellation
                /\ call'[c].ret = matchReturn(call[c].ids, out.Val, out.Err) ]_vars

\* the caller that started a lookup was canceled and returned its context's
\* error; a caller that joined the lookup has the person's team
C14_Witness ==
   (/\ matcher.SingleflightGroup
    /\ \E s, c \in Callers :
         /\ s # c
         /\ call[c].joined = s
         /\ call[s].pc = "done" /\ call[s].ret.err.cause = "canceled"
         /\ call[c].pc = "done" /\ call[c].ret = Matched(<<test1>>, NoError))

\* C15 as stated: with a cache, once a lookup for a key has returned without
\* error the cache holds an entry for the key
C15_CachedAfterLookup ==
  matcher.Cache =>
    \A s \in Callers :
      (lookup[s].stage = "done" /\ lookup[s].out.Err = NoError) => cache[lookup[s].key].ok

\* C15 amended: with a cache, once a lookup for a key has returned without
\* error and the directory knows the subject, the cache holds an entry for
\* the key; a lookup that starts when the cache holds an entry for its key
\* returns without a request to the directory
C15_CachedAfterFoundLookup ==
  /\ [](matcher.Cache =>
          \A s \in Callers :
            ( /\ lookup[s].stage = "done"
              /\ lookup[s].out.Err = NoError
              /\ Directory[lookup[s].key].found ) => cache[lookup[s].key].ok)
  /\ [][ matcher.Cache =>
           \A s \in Callers :
             ( /\ lookup[s].stage = "start"
               /\ lookup'[s].stage # "start"
               /\ cache[lookup[s].key].ok )
             => /\ requests' = requests
                /\ lookup'[s].stage = "done"
                /\ lookup'[s].out = Result(cache[lookup[s].key].teams, NoError) ]_vars

\* a lookup has filled the cache and a later one has returned from it: the
\* directory has had one request for the person and one for the teams
C15_Witness ==
   (/\ matcher.Cache
    /\ \E s, t \in Callers :
         /\ s < t
         /\ lookup[s].stage = "done" /\ lookup[t].stage = "done"
         /\ lookup[s].key = KeyA /\ lookup[t].key = KeyA
         /\ lookup[s].out = Result(<<test1, test2>>, NoError)
         /\ lookup[t].out = Result(cache[KeyA].teams, NoError)
         /\ requests[KeyA] = [people |-> 1, teams |-> 1])

\* C16: in every configuration a caller whose context is canceled while its
\* lookup is in progress returns an error with a cancellation cause
C16_CancelDuringLookup ==
  [][ \A c \in Callers :
        (Returns(c) /\ (call[c].ctx = "canceled" \/ WokenByCancel(c)))
        => call'[c].ret.err.cause \in Cancellation ]_vars

(* ---- AccountMatcher and ACLMatcher ---- *)

\* the positions of list ids that hold identity id
Positions(ids, id) == { k \in 1..Len(ids) : ids[k] = id }

\* the identities of a list
Range(ids) == { ids[k] : k \in 1..Len(ids) }

\* the call in progress is of the named matcher and has returned
Returned(kind) == aclPc = "done" /\ aclCall.kind = kind

\* the account's own identity: https://{Provider}/+id/{OpenID}
OwnIdentity == URLString(aclCall.acc.Provider, "+id/", aclCall.acc.OpenID)

\* C17: AccountMatcher returns no error, nothing but the account's own
\* identity, and that once for each time it is a candidate
C17_AccountMatcherExact ==
  Returned("AccountMatcher") =>
    /\ aclRet.err = NoError
    /\ \A id \in Range(aclRet.ids) : id = OwnIdentity /\ id \in Range(aclCall.ids)
    /\ Len(aclRet.ids) = Cardinality(Positions(aclCall.ids, OwnIdentity))

\* the account's identity was the second of three candidates, the other two
\* being another subject of its provider and its subject at another provider
C17_Witness ==
   (/\ Returned("AccountMatcher")
    /\ Len(aclCall.ids) = 3
    /\ aclCall.ids[2] = OwnIdentity
    /\ aclCall.ids[1].host = aclCall.acc.Provider /\ aclCall.ids[1] # OwnIdentity
    /\ aclCall.ids[3].name = aclCall.acc.OpenID /\ aclCall.ids[3] # OwnIdentity
    /\ aclRet.ids = <<OwnIdentity>>)

\* the candidates ACLMatcher has no matcher for: those that do not parse and
\* those whose host is not in the map
Dropped ==
  { id \in Range(aclCall.ids) :
      urlParse(id).err \/ matcherFor(aclCall.m, urlParse(id).Host) = "nil" }

\* C18: a candidate that does not parse or whose host has no matcher is
\* given to no matcher, is in no result and adds no error
C18_UnmatchedDropped ==
  aclCall.kind = "ACLMatcher" =>
    \A id \in Dropped :
      /\ \A h \in IdHosts : \A k \in 1..Len(delegated[h]) : id \notin Range(delegated[h][k])
      /\ id \notin Range(matchids)
      /\ ~urlParse(id).err => errs[urlParse(id).Host] = NoError
      /\ aclPc = "done" =>
           /\ id \notin Range(aclRet.ids)
           /\ aclRet.err # NoError => urlParse(id).Host \notin DOMAIN aclRet.err.Errors

\* a call with a candidate that does not parse, one of a host without a
\* matcher and one that matched has returned
C18_Witness ==
   (/\ Returned("ACLMatcher")
    /\ BadURL \in Dropped
    /\ \E id \in Dropped : ~urlParse(id).err /\ id.name = aclCall.acc.OpenID
    /\ aclRet.ids # <<>>)

\* the hosts that have a candidate and a matcher
Served == { h \in keys(idmap) : matcherFor(aclCall.m, h) # "nil" }

\* C19: when ACLMatcher returns, with or without an error, each host with a
\* candidate and a matcher had its matcher called once with exactly the
\* candidates of the host, and every match of an AccountMatcher is returned
C19_NoFailFast ==
  Returned("ACLMatcher") =>
    /\ \A h \in Served :
         delegated[h] = << SelectSeq(aclCall.ids,
                                     LAMBDA id : ~urlParse(id).err /\ urlParse(id).Host = h) >>
    /\ \A h \in IdHosts \ Served : delegated[h] = <<>>
    /\ \A id \in Range(aclCall.ids) :
         ( /\ ~urlParse(id).err
           /\ matcherFor(aclCall.m, urlParse(id).Host) = "AccountMatcher"
           /\ id = OwnIdentity ) => id \in Range(aclRet.ids)

\* a call returned an error for one host and the match of another
C19_Witness ==
   (/\ Returned("ACLMatcher")
    /\ aclRet.err # NoError
    /\ aclRet.ids = <<OwnIdentity>>
    /\ Cardinality(Served) = 2)

\* the hosts whose matcher was called and returned an error
Failed == { h \in Served : aclCall.m[h] = "errorMatcher" }

\* C20: ACLMatcher returns nil exactly when no matcher it called failed, and
\* otherwise an ACLMatchError with exactly the failed hosts, each with the
\* error of its matcher
C20_ErrorPerFailedHost ==
  Returned("ACLMatcher") =>
    /\ aclRet.err = NoError <=> Failed = {}
    /\ Failed # {} =>
         /\ aclRet.err.kind = "ACLMatchError"
         /\ DOMAIN aclRet.err.Errors = Failed
         /\ \A h \in Failed : aclRet.err.Errors[h] = NewError(h)

\* a call returned the errors of two hosts
C20_Witness ==
   (/\ Returned("ACLMatcher")
    /\ Cardinality(Failed) = 2
    /\ aclRet.err # NoError)

(* ---- LaunchpadTeamMatcher: matches, keys, cache ---- *)

\* C21: a call whose lookup succeeded returns exactly the candidates that
\* are teams of the subject, the teams being the web links the directory
\* lists for the subject (none for a subject it does not know)
C21_Intersection ==
  \A c \in Callers :
    ( /\ call[c].pc = "done"
      /\ call[c].oid # EmptyString
      /\ call[c].ret.err = NoError )
    => LET person == Directory[call[c].oid]
           teams == IF person.found THEN Range(person.entries) \ {EmptyString} ELSE {}
       IN Range(call[c].ret.rids) = Range(call[c].ids) \cap teams

\* C22: a call for an account of a provider that has no launchpad key
\* returns no match and no error in the step that makes it, joins no lookup,
\* and leaves the cache, the group, the lookups and the request counts alone
C22_NoKeyNoLookup ==
  [][ \A c \in Callers :
        ( /\ call[c].pc = "idle" /\ call'[c].pc # "idle"
          /\ call'[c].acc.Provider \notin
               {"login.launchpad.net", "login.ubuntu.com",
                "login-lp.staging.ubuntu.com", "login.staging.ubuntu.com"} )
        => /\ call'[c].pc = "done"
           /\ call'[c].ret = NoMatched
           /\ call'[c].joined = NoCaller
           /\ UNCHANGED <<cache, group, lookup, requests>> ]_vars

\* a call for an account of another provider has returned while the lookup
\* of an earlier call is with the directory
C22_Witness ==
   (\E s, c \in Callers :
      /\ lookup[s].stage = "people"
      /\ call[c].pc = "done"
      /\ call[c].acc.Provider = Location
      /\ call[c].ret = NoMatched
      /\ lookup[c] = NoLookup)

\* C29: the cache holds for a key the team list a successful lookup for the
\* key returned, and a call without error returns the matches of its
\* candidates against the list a lookup without a cache returns
C29_CacheHitSame ==
  /\ \A s \in Callers :
       ( /\ lookup[s].stage = "done"
         /\ lookup[s].out.Err = NoError
         /\ cache[lookup[s].key].ok )
       => cache[lookup[s].key].teams = lookup[s].out.Val
  /\ \A c \in Callers :
       ( /\ call[c].pc = "done"
         /\ call[c].oid # EmptyString
         /\ call[c].ret.err = NoError )
       => LET person == Directory[call[c].oid]
              t == collectTeams(person)
              uncached == IF person.found THEN SubSeq(t.teams, 1, t.i) ELSE <<>>
          IN call[c].ret.rids = matchTeams(call[c].ids, uncached)

\* C30: a lookup only moves forward, asking the directory once for the
\* person and once for the collection; a lookup that ends in an error leaves
\* the cache as it is; and a lookup that finds no entry for its key in the
\* cache goes to the directory, whatever failed before
C30_NoRetryNoNegativeCache ==
  [][ /\ \A s \in Callers :
           lookup'[s].stage # lookup[s].stage =>
             /\ <<lookup[s].stage, lookup'[s].stage>> \in
                  { <<"none", "start">>, <<"start", "people">>, <<"start", "done">>,
                    <<"people", "teams">>, <<"people", "done">>, <<"teams", "done">> }
             /\ \A k \in Keys :
                  requests'[k] =
                    IF k # lookup[s].key THEN requests[k]
                    ELSE [people |-> requests[k].people
                                       + (IF lookup'[s].stage = "people" THEN 1 ELSE 0),
                          teams |-> requests[k].teams
                                      + (IF lookup'[s].stage = "teams" THEN 1 ELSE 0)]
             /\ (lookup'[s].stage = "done" /\ lookup'[s].out.Err # NoError)
                  => cache' = cache
             /\ (lookup[s].stage = "start" /\ ~cache[lookup[s].key].ok)
                  => \/ lookup'[s].stage = "people"
                     \/ lookup'[s].out.Err = Mask(lpadError("login"))
      /\ (\A s \in Callers : lookup'[s].stage = lookup[s].stage)
           => UNCHANGED <<requests, cache>> ]_vars

\* with a cache: a lookup failed while reading the collection, the cache has
\* no entry for its key, and the next lookup for the key has asked the
\* directory again
C30_Witness ==
   (/\ matcher.Cache
    /\ \E s, t \in Callers :
         /\ s < t
         /\ lookup[s].key = KeyA /\ lookup[t].key = KeyA
         /\ lookup[s].stage = "done"
         /\ lookup[s].out = Result(<<test1>>, Mask(lpadError("for")))
         /\ ~cache[KeyA].ok
         /\ lookup[t].stage = "teams"
         /\ requests[KeyA] = [people |-> 2, teams |-> 2])

(* ---- DirTokenStore ---- *)

\* C23: a Get of the URL of the most recent Set, that Set having stored a
\* token that is not empty, returns the token and no error
C23_RoundTrip ==
  [][ (store'.ret.op = "Get" /\ store'.ret.url = store.set /\ store.last[store.set] # "")
        => /\ store'.ret.token = store.last[store.set]
           /\ store'.ret.err = "nil" ]_vars

\* the Set that made the directory stored a token, and the Get after it has
\* returned the token
C23_Witness ==
   (/\ store.mkdir
    /\ store.ret = [op |-> "Get", url |-> store.set, token |-> "test-token", err |-> "nil"]
    /\ store.last[store.set] = "test-token")

\* C24: a Get returns the token of the most recent Set of its URL (the empty
\* token if there was none) and no error, so that a Set of another URL
\* changes nothing for it
C24_MapByURL ==
  store.ret.op = "Get" =>
    /\ store.ret.token = store.last[store.ret.url]
    /\ store.ret.err = "nil"

(* ---- Authenticator: standard caveats, lifetime, third-party caveat ---- *)

\* C25: the check of a condition with at least two parts whose first part
\* is the location has the outcome of the SSO checker; the check of any
\* other condition leaves the Account as it is and ends the call, with
\* cause ErrUnauthorized, exactly when the standard checker rejects it
C25_StandardChecker ==
  [][ CheckStep =>
        LET c == conds[i]
            r == CaveatChecker(c, account, accNil, now)
            e == CheckFirstPartyCaveat(c, now) IN
        IF c.n >= 2 /\ c.p0 = Location
          THEN /\ r.out # "unsupported"
               /\ r.out = "panic" <=> pc' = "panic"
               /\ r.out = "err" <=> (pc' = "done" /\ i' = i)
               /\ r.out = "err" => ret' = returnError(r.acc, checkError(r))
               /\ r.out = "ok" => (account' = r.acc /\ accNil' = r.isNil)
          ELSE /\ r.out = "unsupported"
               /\ account' = account /\ accNil' = accNil
               /\ IF e = NoErr
                    THEN i' = i + 1 /\ (pc' = "done" => ret' = returnAccount(account))
                    ELSE /\ pc' = "done" /\ i' = i
                         /\ ret'.nil
                         /\ ret'.err.cause = ErrUnauthorized
                         /\ ret'.err.msg = e.msg ]_vars

\* a condition of three parts addressed to another location ended the call:
\* the standard checker does not recognize it
C25_Witness ==
  /\ StoppedAt(i)
  /\ i >= 2
  /\ conds[i].n = 3 /\ conds[i].p0 = OtherLocation
  /\ ret.err.msg = "caveat not recognized"
  /\ ret.err.cause = ErrUnauthorized

\* C26 as stated: for a credential minted by Macaroon at time T, a call
\* made at T + expireTime or later returns an error with cause
\* ErrUnauthorized, and the time-before caveat passes before that time
C26_LifetimeBound ==
  [][ cred.caveats # <<>> =>
        LET bound == cred.caveats[1].arg IN
        /\ (pc = "idle" /\ pc' = "done" /\ now >= bound)
             => (ret'.nil /\ ret'.err.cause = ErrUnauthorized)
        /\ (CheckStep /\ i = 1 /\ now >= bound)
             => (pc' = "done" /\ ret'.nil /\ ret'.err.cause = ErrUnauthorized)
        /\ (CheckStep /\ conds[i] = TimeBeforeCaveat(bound) /\ now < bound)
             => i' = i + 1 ]_vars

\* C26 amended: such a call returns an error, with cause ErrUnauthorized
\* unless VerifyMacaroon failed with an error that is no VerificationError;
\* the time-before caveat passes when it is checked before T + expireTime
C26_LifetimeBoundUnlessStorage ==
  [][ cred.caveats # <<>> =>
        LET bound == cred.caveats[1].arg IN
        /\ (pc = "idle" /\ pc' = "done" /\ now >= bound)
             => /\ ret'.nil
                /\ ret'.err # NoErr
                /\ ret'.err.under # "storage" => ret'.err.cause = ErrUnauthorized
        /\ (CheckStep /\ i = 1 /\ now >= bound)
             => (pc' = "done" /\ ret'.nil /\ ret'.err.cause = ErrUnauthorized)
        /\ (CheckStep /\ conds[i] = TimeBeforeCaveat(bound) /\ now < bound)
             => i' = i + 1 ]_vars

\* a call on a minted credential with a discharge that carries an account
\* was rejected by the time-before caveat exactly at T + expireTime
C26_Witness ==
  /\ StoppedAt(1)
  /\ cred.caveats # <<>>
  /\ conds[1] = cred.caveats[1]
  /\ now = cred.caveats[1].arg
  /\ Len(conds) >= 2
  /\ ret.err.msg = "caveat not satisfied"
  /\ ret.err.cause = ErrUnauthorized

StartsAlone(c) ==
  /\ call[c].pc = "idle" /\ call'[c].pc # "idle"
  /\ call'[c].oid # EmptyString
  /\ ~matcher.SingleflightGroup \/ group[call'[c].oid] = NoCaller

\* C31: lookups for different keys stay apart.  The lookup a caller waits
\* for, the lookup the group holds for a key and the list the cache holds for
\* a key all belong to that key, and what a call returns is drawn from the
\* team array of its own key; a call for a key with no lookup in flight
\* starts a lookup of its own, and a lookup that finds no entry for its key
\* in the cache asks the directory for its own key and for no other
C31_KeysKeptApart ==
  /\ [](/\ \A c \in Callers :
             call[c].joined # NoCaller => lookup[call[c].joined].key = call[c].oid
        /\ \A k \in Keys : group[k] # NoCaller => lookup[group[k]].key = k
        /\ \A k \in Keys : cache[k].ok => cache[k].teams = collectTeams(Directory[k]).teams
        /\ \A c \in Callers :
             (call[c].pc = "done" /\ call[c].oid # EmptyString)
             => Range(call[c].ret.rids) \subseteq Range(collectTeams(Directory[call[c].oid]).teams))
  /\ [][ /\ \A c \in Callers :
              StartsAlone(c) =>
                /\ call'[c].joined = c
                /\ lookup'[c] = Lookup("start", call'[c].oid, {c}, NoResult)
         /\ \A s \in Callers :
              ( /\ lookup[s].stage = "start"
                /\ lookup'[s].stage # "start"
                /\ ~(matcher.Cache /\ cache[lookup[s].key].ok) )
              => \/ lookup'[s].out.Err = Mask(lpadError("login"))
                 \/ /\ lookup'[s].stage = "people"
                    /\ \A k \in Keys :
                         requests'[k].people =
                           requests[k].people + (IF k = lookup[s].key THEN 1 ELSE 0) ]_vars

\* with a group and a cache: the call for one subject has returned its team
\* and filled the cache, and the lookup of a call for the other subject has
\* gone to the directory with its own key
C31_Witness ==
  /\ matcher.SingleflightGroup /\ matcher.Cache
  /\ \E c, d \in Callers :
       /\ call[c].oid = KeyA /\ call[c].pc = "done"
       /\ call[c].ret = Matched(<<test1>>, NoError)
       /\ cache[KeyA].ok
       /\ call[d].oid = KeyB /\ call[d].joined = d
       /\ lookup[d].key = KeyB /\ lookup[d].stage = "people"
       /\ requests[KeyB].people = 1 /\ requests[KeyA].people = 1

\* C32: the group holds a key only while the lookup for it is in flight, so
\* a finished lookup is in no group entry; and on a matcher with a group and
\* no cache a call for a key whose lookups have all finished starts a lookup
\* of its own, which asks the directory again (or fails at the login)
C32_GroupForgets ==
  /\ [](matcher.SingleflightGroup =>
          /\ \A k \in Keys : group[k] # NoCaller => group[k] \in InFlight(k)
          /\ \A s \in Callers : lookup[s].stage = "done" => group[lookup[s].key] # s)
  /\ [][ (matcher.SingleflightGroup /\ ~matcher.Cache) =>
           /\ \A c \in Callers :
                ( /\ call[c].pc = "idle" /\ call'[c].pc # "idle"
                  /\ call'[c].oid # EmptyString
                  /\ InFlight(call'[c].oid) = {} )
                => /\ call'[c].joined = c
                   /\ lookup'[c].stage = "start"
                   /\ group'[call'[c].oid] = c
           /\ \A s \in Callers :
                (lookup[s].stage = "start" /\ lookup'[s].stage # "start")
                => \/ lookup'[s].out.Err = Mask(lpadError("login"))
                   \/ /\ lookup'[s].stage = "people"
                      /\ requests'[lookup[s].key].people = requests[lookup[s].key].people + 1 ]_vars

\* with a group and no cache: the lookup for a subject has finished with the
\* teams, and the lookup of a later call for the same subject is with the
\* directory, which has now had two requests for the person
C32_Witness ==
  /\ matcher.SingleflightGroup /\ ~matcher.Cache
  /\ \E s, t \in Callers :
       /\ s # t
       /\ lookup[s].key = KeyA /\ lookup[s].stage = "done"
       /\ lookup[s].out = Result(<<test1, test2>>, NoError)
       /\ call[t].joined = t /\ group[KeyA] = t
       /\ lookup[t].key = KeyA /\ lookup[t].stage = "people"
       /\ requests[KeyA].people = 2

\* some lookup for key k has ended in an error
LookupFailed(k) ==
  \E s \in Callers : lookup[s].key = k /\ lookup[s].stage = "done" /\ lookup[s].out.Err # NoError

\* some lookup for key k has returned a list without an error
LookupSucceeded(k) ==
  \E s \in Callers : lookup[s].key = k /\ lookup[s].stage = "done" /\ lookup[s].out.Err = NoError

\* C37: on a matcher with a group and a cache, for a subject the directory
\* knows and as long as no lookup for it has failed, the directory gets at
\* most one request for the person and one for the collection however many
\* calls are made, exactly one of each once a lookup has succeeded, and the
\* cache holds the key whenever a lookup for it has succeeded: no call finds
\* the key neither in flight nor in the cache after that
C37_OneUpstreamQuery ==
  (matcher.SingleflightGroup /\ matcher.Cache) =>
    \A k \in Keys :
      (Directory[k].found /\ ~LookupFailed(k)) =>
        /\ requests[k].people <= 1 /\ requests[k].teams <= 1
        /\ LookupSucceeded(k) =>
             /\ requests[k] = [people |-> 1, teams |-> 1]
             /\ cache[k].ok

\* with a group and a cache: every caller has made a call for the same
\* subject, one joined the lookup in flight or found the cache filled, all
\* have returned the team, and the directory was asked once
C37_Witness ==
  /\ matcher.SingleflightGroup /\ matcher.Cache
  /\ \A c \in Callers :
       /\ call[c].oid = KeyA /\ call[c].pc = "done"
       /\ test1 \in Range(call[c].ret.rids)
       /\ call[c].ret.err = NoError
  /\ \E c \in Callers : lookup[c].out = Result(cache[KeyA].teams, NoError)
  /\ requests[KeyA] = [people |-> 1, teams |-> 1]

\* C38: in every configuration a call returns an error with a cancellation
\* cause only if its own context is done when it returns (done at the call,
\* canceled during it, or canceled while it was parked); what a lookup
\* returns never has a cancellation cause, whatever the contexts of the
\* caller that started it and of its waiters
C38_OnlyOwnCancellation ==
  /\ [](\A s \in Callers : lookup[s].out.Err.cause \notin Cancellation)
  /\ [][ \A c \in Callers :
           (Returns(c) /\ call'[c].ret.err.cause \in Cancellation)
           => (call[c].ctx # "" \/ WokenByCancel(c)) ]_vars

\* with a group: the caller that started the lookup was canceled and returned
\* the cancellation, the lookup went on and failed at the directory, and the
\* caller that had joined it, its context not done, returned an error that
\* is no cancellation
C38_Witness ==
  /\ matcher.SingleflightGroup
  /\ \E s, c \in Callers :
       /\ s # c
       /\ call[c].joined = s
       /\ call[s].pc = "done" /\ call[s].ret.err.cause = "canceled"
       /\ lookup[s].stage = "done" /\ lookup[s].out.Err # NoError
       /\ call[c].pc = "done"
       /\ call[c].ret.err # NoError
       /\ call[c].ret.err.cause \notin Cancellation

\* the directory answers every request and lpad.Login returns
LookupsComplete ==
  WF_vars(LookupStart) /\ WF_vars(PeopleReply) /\ WF_vars(TeamsReply)

\* C39: on a matcher with a group no call stays in its select once its
\* context is done, whether or not the lookup it waits for ever completes
\* (a parked call returns in the step that cancels it); and if the
\* directory answers every request then from some point on every call that
\* was made has returned and every lookup that was started has completed,
\* whatever became of its waiters.  A call and a lookup only move forward, so
\* this says that each of them returns.
C39_NoWaiterBlocked ==
  /\ <>[](\A c \in Callers : ~(call[c].pc = "select" /\ call[c].ctx # ""))
  /\ LookupsComplete =>
       <>[](/\ \A c \in Callers : call[c].pc \in {"idle", "done"}
            /\ \A s \in Callers : lookup[s].stage \in {"none", "done"})

\* with a group: every waiter of a lookup has returned because of its
\* cancellation, and the lookup has completed after that with the teams
C39_Witness ==
  /\ matcher.SingleflightGroup
  /\ \E s \in Callers :
       /\ lookup[s].stage = "done"
       /\ lookup[s].out = Result(<<test1, test2>>, NoError)
       /\ Cardinality(lookup[s].chans) = MaxCallers
       /\ \A c \in lookup[s].chans :
            call[c].pc = "done" /\ call[c].ret = Matched(<<>>, Mask(ctxErr("canceled")))

(* ---- Authenticate: the account caveat, totality, order ---- *)

\* the conditions of the call hold an account caveat of the provider
HasAccountCaveat == \E k \in 1..Len(conds) : IsSSO(conds[k], "account")

\* C34: a call succeeds without an account caveat of the provider and then
\* returns an Account with no Provider and no identity; a call that succeeds
\* with one returns an Account whose Provider is the configured location;
\* and a call without one that fails in the loop returns the error that the
\* condition it stopped at raises by itself
C34_AccountOptional ==
  /\ (pc = "done" /\ ret.err = NoErr) =>
       /\ ~ret.nil
       /\ IF HasAccountCaveat
            THEN ret.acc.Provider = Location
            ELSE ret.acc.Provider = "" /\ Identity(ret.acc) = ZeroIdentity
  /\ (pc = "done" /\ ret.err # NoErr /\ ret.err.under = "checker" /\ ~HasAccountCaveat) =>
       /\ i \in 1..Len(conds)
       /\ \E t \in 0..now :
            LET r == checkCondition(conds[i], account, accNil, t) IN
            r.out = "err" /\ ret.err = checkError(r)

\* a call on a discharge made for no account has succeeded: the conditions
\* hold the time-before caveat and provider caveats, none of them an account
\* caveat, and the Account returned has the last-auth time only
C34_Witness ==
  /\ pc = "done" /\ ret.err = NoErr /\ ~ret.nil
  /\ ~HasAccountCaveat
  /\ \E k \in 1..Len(conds) : IsSSO(conds[k], "last_auth")
  /\ \E k \in 1..Len(conds) : IsSSO(conds[k], "expires")
  /\ ret.acc.Provider = "" /\ ret.acc.OpenID = "" /\ ret.acc.LastAuth # 0

\* C35: whatever conditions verification returns, a call comes to its
\* return; the checker never dereferences an Account pointer that is nil
C35_AuthenticateTotal ==
  /\ pc # "panic"
  /\ pc = "done" => (ret.nil <=> ret.err # NoErr)

\* the sequence cs with the conditions at k and k + 1 exchanged
Swapped(cs, k) ==
  [j \in 1..Len(cs) |-> IF j = k THEN cs[k + 1] ELSE IF j = k + 1 THEN cs[k] ELSE cs[j]]

\* C36: with the clock standing still, the loop of Authenticate gives the
\* same verdict, and on success the same Account, for the conditions of a
\* call and for the same conditions with two neighbours exchanged
C36_OrderIndependent ==
  (pc = "checking" /\ i = 1) =>
    \A k \in 1..(Len(conds) - 1) :
      LET a == runConditions(conds, 1, ZeroAccount, FALSE, now)
          b == runConditions(Swapped(conds, k), 1, ZeroAccount, FALSE, now)
      IN /\ a.out = b.out
         /\ a.out = "ok" => a.ret = b.ret

\* C33: whatever the interleaving of the calls (and of Macaroon calls), a
\* call that has ended has the outcome of the loop run alone on its own
\* conditions from a zero Account: the same return value, or the same panic;
\* and a call in its loop has checked none of its conditions otherwise than
\* alone
C33_CallsDoNotInterfere ==
  \A c \in 1..MaxAuthCalls :
    LET alone == runConditions(calls[c].conds, 1, ZeroAccount, FALSE, now) IN
    /\ calls[c].pc = "done" => (alone.out # "panic" /\ calls[c].ret = alone.ret)
    /\ calls[c].pc = "panic" => alone.out = "panic"
    /\ calls[c].pc = "checking" =>
         runConditions(calls[c].conds, calls[c].i, calls[c].account, calls[c].accNil, now) = alone

\* two calls are in their loops at the same time, each has had its account
\* caveat accepted and has conditions left to check, and a Macaroon call
\* was made meanwhile
C33_Witness ==
  /\ \E c, d \in 1..MaxAuthCalls :
       /\ c # d
       /\ calls[c].pc = "checking" /\ calls[c].i > 1
       /\ calls[d].pc = "checking" /\ calls[d].i > 1
       /\ calls[c].account.Provider = Location
       /\ calls[d].account.Provider = Location
       /\ calls[d].accNil /\ ~calls[c].accNil
  /\ cred # NoCred

====
